---- MODULE Spec2Model ----
(***************************************************************************)
(* Model of package bintree (npat-efault/assorted): a binary search tree   *)
(* kept in a heap of nodes (element V, child links l and r), its mutators  *)
(* Insert / Remove, the Day-Stout-Warren Balance, and the range scan.      *)
(***************************************************************************)
EXTENDS Integers, Sequences, FiniteSets, TLC

\* ------------------------------------------------------------------------
\* Bounds of the model
\* ------------------------------------------------------------------------
\* Number of node cells the heap can hold at the same time.
MaxNodes == 4
\* Elements are the integers 1..MaxElem (type Element int of the tests).
MaxElem == 3
\* Largest number of nodes of a tree that is scanned by a producer goroutine.
MaxScanNodes == 3
\* gctl: number of Gcx contexts, and of goroutines started in all of them.
MaxCtx == 2
MaxGort == 2
\* queue: the index word of SQ / SQU has WordBits bits (uint32 in the code,
\* scaled down so that the indices wrap within the runs that are checked).
WordBits == 4
\* queue: number of goroutines that call the methods of one CQ.
MaxQGort == 2
\* Balance: largest number of nodes of a vine given to vine_to_tree.
MaxVine == 7
\* The machine integer type int has IntBits bits (64 or 32 in the code,
\* scaled down so that every value of the type can be given to np2).
IntBits == 7

\* The nil *Node pointer (the empty tree).
Nil == 0
\* A nil Interface given as low or hi to NewScanner (no bound on that side).
NoKey == -1

Nodes == 1..MaxNodes
Elems == 1..MaxElem
\* Bounds a scan may be given: an element, or nil.
Bounds == Elems \cup {NoKey}

\* Cmp of the element type: negative, zero or positive.
Cmp(e, o) == e - o

\* ------------------------------------------------------------------------
\* The heap: h.V[n], h.l[n], h.r[n] are the fields of node n
\* ------------------------------------------------------------------------
EmptyHeap ==
    [V |-> [n \in Nodes |-> 0], l |-> [n \in Nodes |-> Nil], r |-> [n \in Nodes |-> Nil]]

\* Nodes reachable from a root by child links (a fixpoint, so that it is
\* defined on any link structure).
RECURSIVE ReachFrom(_, _, _)
ReachFrom(h, frontier, seen) ==
    IF frontier = {} THEN seen
    ELSE LET nxt == ({h.l[n] : n \in frontier} \cup {h.r[n] : n \in frontier})
                    \ ({Nil} \cup seen)
         IN  ReachFrom(h, nxt, seen \cup nxt)

Reach(h, root) == IF root = Nil THEN {} ELSE ReachFrom(h, {root}, {root})

\* Node.Init / New: the cell n holds v and has no children.
New(h, n, v) ==
    [V |-> [h.V EXCEPT ![n] = v], l |-> [h.l EXCEPT ![n] = Nil], r |-> [h.r EXCEPT ![n] = Nil]]

\* ------------------------------------------------------------------------
\* Insert
\* ------------------------------------------------------------------------
\* InsertLoop with "unique" left out of the test: an equal element always
\* goes to the right.
RECURSIVE InsertLoop_ignoreUnique(_, _, _, _)
InsertLoop_ignoreUnique(h, cn, node, unique) ==
    LET cmp == Cmp(h.V[node], h.V[cn]) IN
    IF cmp < 0
    THEN IF h.l[cn] = Nil
         THEN [h |-> [h EXCEPT !.l[cn] = node], ok |-> TRUE]
         ELSE InsertLoop_ignoreUnique(h, h.l[cn], node, unique)
    ELSE IF h.r[cn] = Nil
         THEN [h |-> [h EXCEPT !.r[cn] = node], ok |-> TRUE]
         ELSE InsertLoop_ignoreUnique(h, h.r[cn], node, unique)

\* InsertLoop that attaches an equal element at the first equal node met,
\* without descending to a nil right link.
RECURSIVE InsertLoop_overwrite(_, _, _, _)
InsertLoop_overwrite(h, cn, node, unique) ==
    LET cmp == Cmp(h.V[node], h.V[cn]) IN
    IF cmp < 0
    THEN IF h.l[cn] = Nil
         THEN [h |-> [h EXCEPT !.l[cn] = node], ok |-> TRUE]
         ELSE InsertLoop_overwrite(h, h.l[cn], node, unique)
    ELSE IF cmp > 0
    THEN IF h.r[cn] = Nil
         THEN [h |-> [h EXCEPT !.r[cn] = node], ok |-> TRUE]
         ELSE InsertLoop_overwrite(h, h.r[cn], node, unique)
    ELSE IF ~unique
    THEN [h |-> [h EXCEPT !.r[cn] = node], ok |-> TRUE]
    ELSE [h |-> h, ok |-> FALSE]

\* InsertLoop that puts an element equal to the current node's on the left
\* when duplicates are allowed.
RECURSIVE InsertLoop_equalLeft(_, _, _, _)
InsertLoop_equalLeft(h, cn, node, unique) ==
    LET cmp == Cmp(h.V[node], h.V[cn]) IN
    IF cmp < 0 \/ (cmp = 0 /\ ~unique)
    THEN IF h.l[cn] = Nil
         THEN [h |-> [h EXCEPT !.l[cn] = node], ok |-> TRUE]
         ELSE InsertLoop_equalLeft(h, h.l[cn], node, unique)
    ELSE IF cmp > 0
    THEN IF h.r[cn] = Nil
         THEN [h |-> [h EXCEPT !.r[cn] = node], ok |-> TRUE]
         ELSE InsertLoop_equalLeft(h, h.r[cn], node, unique)
    ELSE [h |-> h, ok |-> FALSE]

\* The search loop of Insert, from the current node cn.
RECURSIVE InsertLoop(_, _, _, _)
InsertLoop(h, cn, node, unique) ==
    LET cmp == Cmp(h.V[node], h.V[cn]) IN
    IF cmp < 0
    THEN IF h.l[cn] = Nil
         THEN [h |-> [h EXCEPT !.l[cn] = node], ok |-> TRUE]
         ELSE InsertLoop(h, h.l[cn], node, unique)
    ELSE IF cmp > 0 \/ (cmp = 0 /\ ~unique)
    THEN IF h.r[cn] = Nil
         THEN [h |-> [h EXCEPT !.r[cn] = node], ok |-> TRUE]
         ELSE InsertLoop(h, h.r[cn], node, unique)
    ELSE [h |-> h, ok |-> FALSE]

Insert(h, root, node, unique) ==
    IF root = Nil
    THEN [h |-> h, tree |-> node, ok |-> TRUE]
    ELSE LET res == InsertLoop(h, root, node, unique)
         IN  [h |-> res.h, tree |-> root, ok |-> res.ok]

\* ------------------------------------------------------------------------
\* Remove
\* ------------------------------------------------------------------------
\* minNode: <<min node, its parent>>; the parent is Nil when the min node
\* is the root given.
\* minNodeLoop that does not keep track of the parent.
RECURSIVE minNodeLoop_noParent(_, _, _)
minNodeLoop_noParent(h, t, parent) ==
    IF h.l[t] # Nil THEN minNodeLoop_noParent(h, h.l[t], Nil) ELSE <<t, Nil>>

RECURSIVE minNodeLoop(_, _, _)
minNodeLoop(h, t, parent) ==
    IF h.l[t] # Nil THEN minNodeLoop(h, h.l[t], t) ELSE <<t, parent>>

minNode(h, root) == IF root = Nil THEN <<Nil, Nil>> ELSE minNodeLoop(h, root, Nil)

\* findNodeLoop that, when the search runs off the tree, returns the last
\* node visited instead of nil.
RECURSIVE findNodeLoop_lastVisited(_, _, _, _)
findNodeLoop_lastVisited(h, node, parent, key) ==
    IF node = Nil THEN <<parent, Nil>>
    ELSE LET k == Cmp(key, h.V[node]) IN
         IF k = 0 THEN <<node, parent>>
         ELSE IF k < 0 THEN findNodeLoop_lastVisited(h, h.l[node], node, key)
         ELSE findNodeLoop_lastVisited(h, h.r[node], node, key)

\* findNode: <<node, parent>> of the first node on the search path whose
\* element compares equal to key; node is Nil when there is none.
RECURSIVE findNodeLoop(_, _, _, _)
findNodeLoop(h, node, parent, key) ==
    IF node = Nil THEN <<node, parent>>
    ELSE LET k == Cmp(key, h.V[node]) IN
         IF k = 0 THEN <<node, parent>>
         ELSE IF k < 0 THEN findNodeLoop(h, h.l[node], node, key)
         ELSE findNodeLoop(h, h.r[node], node, key)

findNode(h, root, key) == findNodeLoop(h, root, Nil, key)

RECURSIVE rmNode(_, _, _, _)
\* rmNode whose second case splices in the right subtree (which is empty)
\* instead of the left one.
rmNode_wrongChild(h, root, node, parent) ==
    IF h.l[node] = Nil
    THEN IF parent = Nil THEN [h |-> h, tree |-> h.r[node]]
         ELSE IF h.l[parent] = node
         THEN [h |-> [h EXCEPT !.l[parent] = h.r[node]], tree |-> root]
         ELSE [h |-> [h EXCEPT !.r[parent] = h.r[node]], tree |-> root]
    ELSE IF h.r[node] = Nil
    THEN IF parent = Nil THEN [h |-> h, tree |-> h.r[node]]
         ELSE IF h.l[parent] = node
         THEN [h |-> [h EXCEPT !.l[parent] = h.r[node]], tree |-> root]
         ELSE [h |-> [h EXCEPT !.r[parent] = h.r[node]], tree |-> root]
    ELSE LET mn     == minNode(h, h.r[node])
             nnode  == mn[1]
             pnnode == IF mn[2] = Nil THEN node ELSE mn[2]
             h1     == [h EXCEPT !.V[node] = h.V[nnode]]
         IN  rmNode(h1, root, nnode, pnnode)

\* rmNode whose third case unlinks the successor without first copying its
\* element into the located node.
rmNode_keepElem(h, root, node, parent) ==
    IF h.l[node] = Nil
    THEN IF parent = Nil THEN [h |-> h, tree |-> h.r[node]]
         ELSE IF h.l[parent] = node
         THEN [h |-> [h EXCEPT !.l[parent] = h.r[node]], tree |-> root]
         ELSE [h |-> [h EXCEPT !.r[parent] = h.r[node]], tree |-> root]
    ELSE IF h.r[node] = Nil
    THEN IF parent = Nil THEN [h |-> h, tree |-> h.l[node]]
         ELSE IF h.l[parent] = node
         THEN [h |-> [h EXCEPT !.l[parent] = h.l[node]], tree |-> root]
         ELSE [h |-> [h EXCEPT !.r[parent] = h.l[node]], tree |-> root]
    ELSE LET mn     == minNode(h, h.r[node])
             nnode  == mn[1]
             pnnode == IF mn[2] = Nil THEN node ELSE mn[2]
         IN  rmNode(h, root, nnode, pnnode)

\* rmNode: unlink node (whose parent is parent) from the tree at root.
rmNode(h, root, node, parent) ==
    IF h.l[node] = Nil
    THEN IF parent = Nil THEN [h |-> h, tree |-> h.r[node]]
         ELSE IF h.l[parent] = node
         THEN [h |-> [h EXCEPT !.l[parent] = h.r[node]], tree |-> root]
         ELSE [h |-> [h EXCEPT !.r[parent] = h.r[node]], tree |-> root]
    ELSE IF h.r[node] = Nil
    THEN IF parent = Nil THEN [h |-> h, tree |-> h.l[node]]
         ELSE IF h.l[parent] = node
         THEN [h |-> [h EXCEPT !.l[parent] = h.l[node]], tree |-> root]
         ELSE [h |-> [h EXCEPT !.r[parent] = h.l[node]], tree |-> root]
    ELSE LET mn     == minNode(h, h.r[node])
             nnode  == mn[1]
             pnnode == IF mn[2] = Nil THEN node ELSE mn[2]
             h1     == [h EXCEPT !.V[node] = h.V[nnode]]
         IN  rmNode(h1, root, nnode, pnnode)

\* Remove that hands back the root it was given instead of the root rmNode
\* returns.
Remove_staleRoot(h, root, key) ==
    LET np == findNode(h, root, key) IN
    IF np[1] = Nil
    THEN [h |-> h, tree |-> root, node |-> Nil, found |-> FALSE]
    ELSE LET res == rmNode(h, root, np[1], np[2])
         IN  [h |-> res.h, tree |-> root, node |-> np[1], found |-> TRUE]

Remove(h, root, key) ==
    LET np == findNode(h, root, key) IN
    IF np[1] = Nil
    THEN [h |-> h, tree |-> root, node |-> Nil, found |-> FALSE]
    ELSE LET res == rmNode(h, root, np[1], np[2])
         IN  [h |-> res.h, tree |-> res.tree, node |-> np[1], found |-> TRUE]

\* ------------------------------------------------------------------------
\* Height
\* ------------------------------------------------------------------------
\* Height that takes the lower of the two subtrees.
RECURSIVE Height_min(_, _)
Height_min(h, root) ==
    IF root = Nil THEN 0
    ELSE LET lh == Height_min(h, h.l[root])
             rh == Height_min(h, h.r[root])
         IN  IF lh < rh THEN lh + 1 ELSE rh + 1

RECURSIVE Height(_, _)
Height(h, root) ==
    IF root = Nil THEN 0
    ELSE LET lh == Height(h, h.l[root])
             rh == Height(h, h.r[root])
         IN  IF lh < rh THEN rh + 1 ELSE lh + 1

\* FindLoop that descends to the right when the key is smaller and to the
\* left when it is larger.
RECURSIVE FindLoop_wrongWay(_, _, _)
FindLoop_wrongWay(h, t, key) ==
    IF t = Nil THEN Nil
    ELSE LET k == Cmp(key, h.V[t])
         IN  IF k = 0 THEN t
             ELSE IF k < 0 THEN FindLoop_wrongWay(h, h.r[t], key)
             ELSE FindLoop_wrongWay(h, h.l[t], key)

\* The loop of Find: the node at which the search for key stops (Nil when it
\* runs off the tree).
RECURSIVE FindLoop(_, _, _)
FindLoop(h, t, key) ==
    IF t = Nil THEN Nil
    ELSE LET k == Cmp(key, h.V[t])
         IN  IF k = 0 THEN t
             ELSE IF k < 0 THEN FindLoop(h, h.l[t], key)
             ELSE FindLoop(h, h.r[t], key)

\* Find: (v, true) for the element the search stops at, (nil, false) when it
\* runs off the tree; nil is NoKey.
Find(h, root, key) ==
    LET t == FindLoop(h, root, key)
    IN  IF t = Nil THEN [elem |-> NoKey, found |-> FALSE]
        ELSE [elem |-> h.V[t], found |-> TRUE]

\* ------------------------------------------------------------------------
\* Balance (Day-Stout-Warren)
\* ------------------------------------------------------------------------
\* ttvLoop whose right rotation drops the right subtree of the promoted
\* node instead of handing it to the demoted one.
RECURSIVE ttvLoop_dropSubtree(_, _, _, _, _)
ttvLoop_dropSubtree(h, root, vt, rm, sz) ==
    IF rm = Nil THEN [h |-> h, tree |-> root, sz |-> sz]
    ELSE IF h.l[rm] = Nil
    THEN ttvLoop_dropSubtree(h, root, rm, h.r[rm], sz + 1)
    ELSE LET t  == h.l[rm]
             h1 == [h EXCEPT !.l[rm] = Nil]
             h2 == [h1 EXCEPT !.r[t] = rm]
         IN  IF vt = Nil
             THEN ttvLoop_dropSubtree(h2, t, vt, t, sz)
             ELSE ttvLoop_dropSubtree([h2 EXCEPT !.r[vt] = t], root, vt, t, sz)

\* ttvLoop that counts a node at every turn of the loop, rotations included.
RECURSIVE ttvLoop_countTurns(_, _, _, _, _)
ttvLoop_countTurns(h, root, vt, rm, sz) ==
    IF rm = Nil THEN [h |-> h, tree |-> root, sz |-> sz]
    ELSE IF h.l[rm] = Nil
    THEN ttvLoop_countTurns(h, root, rm, h.r[rm], sz + 1)
    ELSE LET t  == h.l[rm]
             h1 == [h EXCEPT !.l[rm] = h.r[t]]
             h2 == [h1 EXCEPT !.r[t] = rm]
         IN  IF vt = Nil
             THEN ttvLoop_countTurns(h2, t, vt, t, sz + 1)
             ELSE ttvLoop_countTurns([h2 EXCEPT !.r[vt] = t], root, vt, t,
                                     sz + 1)

\* The loop of tree_to_vine: vt is the vine tail, rm the remainder, sz the
\* number of nodes moved to the vine so far.
RECURSIVE ttvLoop(_, _, _, _, _)
ttvLoop(h, root, vt, rm, sz) ==
    IF rm = Nil THEN [h |-> h, tree |-> root, sz |-> sz]
    ELSE IF h.l[rm] = Nil
    THEN ttvLoop(h, root, rm, h.r[rm], sz + 1)
    ELSE LET t  == h.l[rm]
             h1 == [h EXCEPT !.l[rm] = h.r[t]]
             h2 == [h1 EXCEPT !.r[t] = rm]
         IN  IF vt = Nil
             THEN ttvLoop(h2, t, vt, t, sz)
             ELSE ttvLoop([h2 EXCEPT !.r[vt] = t], root, vt, t, sz)

tree_to_vine(h, root) == ttvLoop(h, root, Nil, root, 0)

\* compressLoop whose rotation leaves ch.r pointing at sc (ch.r = sc.l is
\* missing).
RECURSIVE compressLoop_keepRight(_, _, _, _, _)
compressLoop_keepRight(h, root, sc, i, count) ==
    IF ~(i < count) THEN [h |-> h, tree |-> root, fault |-> FALSE]
    ELSE LET ch == IF sc = Nil THEN root ELSE h.r[sc] IN
         IF ch = Nil THEN [h |-> h, tree |-> root, fault |-> TRUE]
         ELSE LET root1 == IF sc = Nil THEN h.r[ch] ELSE root
                  h1    == IF sc = Nil THEN h ELSE [h EXCEPT !.r[sc] = h.r[ch]]
                  sc1   == h1.r[ch]
              IN  IF sc1 = Nil THEN [h |-> h1, tree |-> root1, fault |-> TRUE]
                  ELSE LET h3 == [h1 EXCEPT !.l[sc1] = ch]
                       IN  compressLoop_keepRight(h3, root1, sc1, i + 1, count)

\* The loop of compress: count - i left rotations remain, sc is the scanner.
\* A rotation that dereferences a nil pointer faults (fault |-> TRUE) and
\* leaves the heap as it was written up to that point.
RECURSIVE compressLoop(_, _, _, _, _)
compressLoop(h, root, sc, i, count) ==
    IF ~(i < count) THEN [h |-> h, tree |-> root, fault |-> FALSE]
    ELSE LET ch == IF sc = Nil THEN root ELSE h.r[sc] IN
         IF ch = Nil THEN [h |-> h, tree |-> root, fault |-> TRUE]
         ELSE LET root1 == IF sc = Nil THEN h.r[ch] ELSE root
                  h1    == IF sc = Nil THEN h ELSE [h EXCEPT !.r[sc] = h.r[ch]]
                  sc1   == h1.r[ch]
              IN  IF sc1 = Nil THEN [h |-> h1, tree |-> root1, fault |-> TRUE]
                  ELSE LET h2 == [h1 EXCEPT !.r[ch] = h1.l[sc1]]
                           h3 == [h2 EXCEPT !.l[sc1] = ch]
                       IN  compressLoop(h3, root1, sc1, i + 1, count)

compress(h, root, count) == compressLoop(h, root, Nil, 0, count)

\* The values of type int: two's complement, IntBits bits.
IntMin == -(2 ^ (IntBits - 1))
IntMax == 2 ^ (IntBits - 1) - 1
\* The int that is left of x when the bits above the word are dropped.
WrapInt(x) == ((x - IntMin) % (2 ^ IntBits)) + IntMin
\* r << 1 and r >> 1 on an int.
Shl1(r) == WrapInt(2 * r)
Shr1(r) == r \div 2

\* np2: the loop shifts r left while r <= i; the result is r >> 1. (Balance
\* calls it with sz + 1, far below the largest int.)
RECURSIVE np2Loop(_, _)
np2Loop(r, i) == IF r <= i THEN np2Loop(Shl1(r), i) ELSE Shr1(r)

np2(i) == np2Loop(1, i)

\* The loop of vine_to_tree: compress by sz >> 1 while sz > 1.
RECURSIVE vttLoop(_, _, _)
vttLoop(h, root, sz) ==
    IF sz > 1
    THEN LET c == compress(h, root, sz \div 2) IN
         IF c.fault THEN c ELSE vttLoop(c.h, c.tree, sz \div 2)
    ELSE [h |-> h, tree |-> root, fault |-> FALSE]

\* The number of rotations of the first compress of vine_to_tree, counted
\* from sz instead of sz + 1.
firstCount_offByOne(sz) == sz - np2(sz)

\* The number of rotations of the first compress of vine_to_tree.
firstCount(sz) == sz + 1 - np2(sz + 1)

\* The number of nodes on the right spine from root.
RECURSIVE SpineLen(_, _)
SpineLen(h, root) == IF root = Nil THEN 0 ELSE 1 + SpineLen(h, h.r[root])

\* vine_to_tree that counts the leftover nodes from sz instead of sz + 1.
vine_to_tree_offByOne(h, root, sz) ==
    LET lc == sz - np2(sz)
        c  == compress(h, root, lc)
    IN  IF c.fault THEN c ELSE vttLoop(c.h, c.tree, sz - lc)

vine_to_tree(h, root, sz) ==
    LET lc == sz + 1 - np2(sz + 1)
        c  == compress(h, root, lc)
    IN  IF c.fault THEN c ELSE vttLoop(c.h, c.tree, sz - lc)

\* Balance that gives the tree to vine_to_tree as it is.
Balance_noVine(h, root) ==
    vine_to_tree(h, root, Cardinality(Reach(h, root)))

Balance(h, root) ==
    LET v == tree_to_vine(h, root) IN vine_to_tree(v.h, v.tree, v.sz)

\* ------------------------------------------------------------------------
\* Range scan
\* ------------------------------------------------------------------------
\* scanDecide with an exclusive upper bound (chi > 0 for chi >= 0).
scanDecide_exclusiveHi(clow, chi) ==
    IF clow > 0 THEN [left |-> FALSE, emit |-> FALSE, right |-> TRUE]
    ELSE IF clow = 0 THEN [left |-> FALSE, emit |-> TRUE, right |-> TRUE]
    ELSE IF chi > 0 THEN [left |-> TRUE, emit |-> TRUE, right |-> TRUE]
    ELSE [left |-> TRUE, emit |-> FALSE, right |-> FALSE]

\* The decision table of scan: which of left subtree, this node, right
\* subtree the producer visits, from the two comparisons.
scanDecide(clow, chi) ==
    IF clow > 0 THEN [left |-> FALSE, emit |-> FALSE, right |-> TRUE]
    ELSE IF clow = 0 THEN [left |-> FALSE, emit |-> TRUE, right |-> TRUE]
    ELSE IF chi >= 0 THEN [left |-> TRUE, emit |-> TRUE, right |-> TRUE]
    ELSE [left |-> TRUE, emit |-> FALSE, right |-> FALSE]

\* scanOrder that swaps the two subtrees for a descending scan but not the
\* two decisions that go with them.
scanOrder_unswapped(h, root, reverse, d) ==
    IF reverse
    THEN [pre |-> h.r[root], post |-> h.l[root], dopre |-> d.left, dopost |-> d.right]
    ELSE [pre |-> h.l[root], post |-> h.r[root], dopre |-> d.left, dopost |-> d.right]

\* The traversal order of scan: the subtree visited before the emission
\* point (pre), the one visited after it (post), and whether each is visited.
scanOrder(h, root, reverse, d) ==
    IF reverse
    THEN [pre |-> h.r[root], post |-> h.l[root], dopre |-> d.right, dopost |-> d.left]
    ELSE [pre |-> h.l[root], post |-> h.r[root], dopre |-> d.left, dopost |-> d.right]

\* scan: the nodes whose element the producer sends on the channel, in the
\* order of the sends, when every send is received (quit is never closed).
RECURSIVE scan(_, _, _, _, _)
scan(h, root, reverse, low, hi) ==
    LET clow == IF low # NoKey THEN Cmp(low, h.V[root]) ELSE -1
        chi  == IF hi # NoKey THEN Cmp(hi, h.V[root]) ELSE 1
        d    == scanDecide(clow, chi)
        o    == scanOrder(h, root, reverse, d)
    IN  (IF o.dopre /\ o.pre # Nil THEN scan(h, o.pre, reverse, low, hi) ELSE <<>>)
        \o (IF d.emit THEN <<root>> ELSE <<>>)
        \o (IF o.dopost /\ o.post # Nil THEN scan(h, o.post, reverse, low, hi) ELSE <<>>)

\* NewScanner: the producer runs scan on a non-empty tree; on the empty
\* tree the channel is closed at once and nothing is sent.
NewScanner(h, root, reverse, low, hi) ==
    IF root # Nil THEN scan(h, root, reverse, low, hi) ELSE <<>>

\* The elements returned by calling Next until it reports ok = false.
Drain(h, root, reverse, low, hi) ==
    LET s == NewScanner(h, root, reverse, low, hi)
    IN  [i \in 1..Len(s) |-> h.V[s[i]]]

\* ------------------------------------------------------------------------
\* Range scan: the producer goroutine, its channels and the consumer
\* ------------------------------------------------------------------------
\* A channel: whether it has been closed, and whether a close of the
\* already closed channel (a run-time panic) has happened.
NewChan == [closed |-> FALSE, fault |-> FALSE]
closeChan(c) == [closed |-> TRUE, fault |-> c.fault \/ c.closed]

\* The Scanner value before NewScanner, and the one NewScanner returns.
NoScanner == [active |-> FALSE, reverse |-> FALSE, low |-> NoKey, hi |-> NoKey]
Scanner(reverse, low, hi) ==
    [active |-> TRUE, reverse |-> reverse, low |-> low, hi |-> hi]

\* History of the producer, recorded in the runs that ask about it: whether
\* a select of it has taken <-quit (observed), and how many nodes it has
\* entered since quit was closed (late: 0, 1, or 2 for two or more), the
\* nodes whose select took the send (sent), and the elements the Next calls
\* returned with ok = true (got).
NoProd == [observed |-> FALSE, late |-> 0, sent |-> <<>>, got |-> <<>>]

\* One invocation of scan on node n. pc is "enter" (called, nothing done
\* yet), "inpre" / "inpost" (inside the recursive call on pre / post) or
\* "select" (at the select statement). The producer's call stack is a
\* sequence of frames, the top-level invocation (top = true) first.
Frame(n, pc) == [n |-> n, pc |-> pc]
Top(st) == st[Len(st)]
Pop(st) == SubSeq(st, 1, Len(st) - 1)
SetTop(st, pc) == [st EXCEPT ![Len(st)].pc = pc]

\* What scan computes on entering node n before it does anything else.
scanNode(h, n, sp) ==
    LET clow == IF sp.low # NoKey THEN Cmp(sp.low, h.V[n]) ELSE -1
        chi  == IF sp.hi # NoKey THEN Cmp(sp.hi, h.V[n]) ELSE 1
        d    == scanDecide(clow, chi)
        o    == scanOrder(h, n, sp.reverse, d)
    IN  [emit |-> d.emit, pre |-> o.pre, post |-> o.post,
         dopre |-> o.dopre, dopost |-> o.dopost]

\* The producer runs on from a point of the top frame until it is at a
\* select, has entered another node, or has returned from the top-level
\* invocation. Each yields the new stack and whether ch was closed.
\*   scanAfterPre:  the top frame is past its pre part
\*   scanAfterEmit: the top frame is past its select
\*   scanFinish:    the top frame is at its last statement
\*   scanResume:    a recursive call has returned into the top frame
RECURSIVE scanAfterPre(_, _, _), scanAfterEmit(_, _, _)
RECURSIVE scanFinish(_, _, _), scanResume(_, _, _)
\* scanAfterPre that goes past the select without stopping at it.
scanAfterPre_noSelect(h, st, sp) == scanAfterEmit(h, st, sp)

\* scanFinish that closes ch at the end of every invocation, top-level or
\* not.
scanFinish_closeAlways(h, st, sp) ==
    IF Len(st) = 1 THEN [st |-> <<>>, close |-> TRUE]
    ELSE [st |-> scanResume(h, Pop(st), sp).st, close |-> TRUE]

scanAfterPre(h, st, sp) ==
    IF scanNode(h, Top(st).n, sp).emit
    THEN [st |-> SetTop(st, "select"), close |-> FALSE]
    ELSE scanAfterEmit(h, st, sp)

scanAfterEmit(h, st, sp) ==
    LET k == scanNode(h, Top(st).n, sp)
    IN  IF k.dopost /\ k.post # Nil
        THEN [st |-> Append(SetTop(st, "inpost"), Frame(k.post, "enter")),
              close |-> FALSE]
        ELSE scanFinish(h, st, sp)

scanFinish(h, st, sp) ==
    IF Len(st) = 1 THEN [st |-> <<>>, close |-> TRUE]
    ELSE scanResume(h, Pop(st), sp)

scanResume(h, st, sp) ==
    IF Top(st).pc = "inpre" THEN scanAfterPre(h, st, sp)
    ELSE scanFinish(h, st, sp)

\* The top frame has just been called: it computes its decisions and calls
\* scan on pre, or goes on past its pre part.
scanEnter(h, st, sp) ==
    LET k == scanNode(h, Top(st).n, sp)
    IN  IF k.dopre /\ k.pre # Nil
        THEN [st |-> Append(SetTop(st, "inpre"), Frame(k.pre, "enter")),
              close |-> FALSE]
        ELSE scanAfterPre(h, st, sp)

\* scanQuit that closes ch in every invocation, top-level or not.
scanQuit_closeAlways(h, st, sp) ==
    IF Len(st) = 1 THEN [st |-> <<>>, close |-> TRUE]
    ELSE [st |-> scanResume(h, Pop(st), sp).st, close |-> TRUE]

\* scanQuit whose top-level invocation returns without closing ch.
scanQuit_noClose(h, st, sp) ==
    IF Len(st) = 1 THEN [st |-> <<>>, close |-> FALSE]
    ELSE scanResume(h, Pop(st), sp)

\* The select of the top frame takes <-quit: the top-level invocation
\* closes ch; the invocation returns.
scanQuit(h, st, sp) ==
    IF Len(st) = 1 THEN [st |-> <<>>, close |-> TRUE]
    ELSE scanResume(h, Pop(st), sp)

\* The select of the top frame takes ch <- root.V.
scanSend(h, st, sp) == scanAfterEmit(h, st, sp)

\* ------------------------------------------------------------------------
\* gctl: goroutine contexts and groups
\* ------------------------------------------------------------------------
Ctxs == 1..MaxCtx
Gorts == 1..MaxGort

\* Exit statuses: nil, ErrKilled and two other errors; ErrGcxEmpty is what
\* the methods return on an empty context.
ErrNil == "nil"
ErrKilled == "ErrKilled"
ErrGcxEmpty == "ErrGcxEmpty"
UserErrs == {"E1", "E2"}
Statuses == {ErrNil, ErrKilled} \cup UserErrs

\* A channel variable of a Gcx: nil until made; closed; and whether a close
\* of the nil or already closed channel (a panic) has happened.
NilChan == [nil |-> TRUE, closed |-> FALSE, fault |-> FALSE]
MakeChan == [nil |-> FALSE, closed |-> FALSE, fault |-> FALSE]
CloseChan(c) ==
    [nil |-> c.nil, closed |-> ~c.nil, fault |-> c.fault \/ c.nil \/ c.closed]

\* The zero Gcx (an empty context). group is whether c.group is set (there
\* is one Group).
GcxZero ==
    [kill |-> NilChan, dead |-> NilChan, ngort |-> 0, signaled |-> FALSE,
     status |-> ErrNil, group |-> FALSE]

\* The zero Group; notify is whether g.notify has been made.
GroupZero == [n |-> 0, notify |-> FALSE, returned |-> <<>>]

\* A goroutine started by Gcx.Go in context ctx. pc is "run" (inside f),
\* "dead" (last goroutine, before close(c.dead)), "notify" (before
\* g.notify <- c), "done", or "free" for a goroutine not started yet.
NoGort == [ctx |-> 0, pc |-> "free"]

\* exitGcx that keeps ErrKilled as the status once it is set (the test
\* c.status == ErrKilled is missing).
exitGcx_keepKilled(x, err) ==
    LET set  == x.status = ErrNil /\ err # ErrNil
        shut == set /\ ~x.signaled
        n    == x.ngort - 1
    IN  [x |-> [x EXCEPT !.status = IF set THEN err ELSE @,
                         !.kill = IF shut THEN CloseChan(@) ELSE @,
                         !.signaled = IF shut THEN TRUE ELSE @,
                         !.ngort = IF n # 0 THEN n ELSE -1],
         last |-> (n = 0)]

\* The part of a goroutine's exit that runs with c.mu held: x is the Gcx,
\* err what f returned. last tells whether this was the context's last
\* goroutine.
exitGcx(x, err) ==
    LET set  == (x.status = ErrNil \/ x.status = ErrKilled) /\ err # ErrNil
        shut == set /\ ~x.signaled
        n    == x.ngort - 1
    IN  [x |-> [x EXCEPT !.status = IF set THEN err ELSE @,
                         !.kill = IF shut THEN CloseChan(@) ELSE @,
                         !.signaled = IF shut THEN TRUE ELSE @,
                         !.ngort = IF n # 0 THEN n ELSE -1],
         last |-> (n = 0)]

\* Gcx.Kill that closes c.kill without looking at c.signaled.
killGcx_noSignaled(x) ==
    IF x.kill.nil THEN [x |-> x, ret |-> ErrGcxEmpty]
    ELSE [x |-> [x EXCEPT !.signaled = TRUE, !.kill = CloseChan(@)],
          ret |-> ErrNil]

\* Gcx.Kill on the Gcx x: the Gcx afterwards and the error returned.
killGcx(x) ==
    IF x.kill.nil THEN [x |-> x, ret |-> ErrGcxEmpty]
    ELSE IF x.signaled THEN [x |-> x, ret |-> ErrNil]
    ELSE [x |-> [x EXCEPT !.signaled = TRUE, !.kill = CloseChan(@)],
          ret |-> ErrNil]

\* Gcx.Go that does not count the goroutine it starts.
goGcx_noCount(x) ==
    [x EXCEPT !.kill = IF x.kill.nil THEN MakeChan ELSE @,
              !.dead = IF x.kill.nil THEN MakeChan ELSE @]

\* Gcx.Go on the Gcx x, while it is not dead: the channels are made on the
\* first call, and the goroutine is counted.
goGcx(x) ==
    [x EXCEPT !.kill = IF x.kill.nil THEN MakeChan ELSE @,
              !.dead = IF x.kill.nil THEN MakeChan ELSE @,
              !.ngort = @ + 1]

\* A step of gctl: a method call on context c that returned ret (an error,
\* or "panic"), or a step of a goroutine or of a call that goes on.
Ret(op, c, ret) == [op |-> op, c |-> c, ret |-> ret]

\* ------------------------------------------------------------------------
\* queue: the fixed-capacity FIFO queues SQ, SQU (slice) and CQ (channel)
\* ------------------------------------------------------------------------
Word == 2 ^ WordBits
\* Conversion to the index type: the value modulo the word size.
u32(x) == ((x % Word) + Word) % Word

\* Bitwise and of two words.
RECURSIVE BitAnd(_, _)
BitAnd(a, b) ==
    IF a = 0 \/ b = 0
    THEN 0
    ELSE (a % 2) * (b % 2) + 2 * BitAnd(a \div 2, b \div 2)

\* Sizes given to NewSQ / NewSQU / NewCQ, and the elements pushed.
QSizes == 0..4
QElems == {1, 2}
\* The nil interface{} value of a buffer slot never written.
QNil == 0
QGorts == 1..MaxQGort

\* The queue variable before NewSQ / NewSQU has been called.
NoQueue ==
    [kind |-> "none", sz |-> 0, m |-> 0, s |-> 0, e |-> 0, b |-> <<>>,
     mu |-> FALSE]

\* The size test of NewSQ / NewSQU: sz is zero or a power of two.
ValidSize(sz) == BitAnd(u32(sz), u32(u32(sz) - 1)) = 0

\* NewSQ (kind "SQ", with mutex mu) and NewSQU (kind "SQU", mu never held).
\* The buffer b is indexed from 0.
NewQ(kind, sz) ==
    [kind |-> kind, sz |-> u32(sz), m |-> u32(u32(sz) - 1), s |-> 0, e |-> 0,
     b |-> [i \in 0..(sz - 1) |-> QNil], mu |-> FALSE]

qEmpty(q) == q.s = q.e

\* Full with the subtraction done on integers, not on words.
qFull_noWrap(q) == q.e - q.s = q.sz

qFull(q) == u32(q.e - q.s) = q.sz

qLen(q) == u32(q.e - q.s)

qCap(q) == q.sz

\* Pop: the queue after the call, the value returned, and whether the call
\* panicked. SQ unlocks mu before it panics.
qPop(q) ==
    IF qEmpty(q)
    THEN [q |-> q, ret |-> QNil, panic |-> TRUE]
    ELSE [q |-> [q EXCEPT !.s = u32(@ + 1)],
          ret |-> q.b[BitAnd(q.s, q.m)], panic |-> FALSE]

\* Peek: as Pop, the queue unchanged.
qPeek(q) ==
    IF qEmpty(q)
    THEN [q |-> q, ret |-> QNil, panic |-> TRUE]
    ELSE [q |-> q, ret |-> q.b[BitAnd(q.s, q.m)], panic |-> FALSE]

\* Push: SQ panics on a full queue with mu still locked.
qPush(q, e) ==
    IF qFull(q)
    THEN [q |-> [q EXCEPT !.mu = (q.kind = "SQ")], ret |-> QNil,
          panic |-> TRUE]
    ELSE [q |-> [q EXCEPT !.b[BitAnd(q.e, q.m)] = e, !.e = u32(@ + 1)],
          ret |-> QNil, panic |-> FALSE]

\* What a queue call returned: the value, and whether it panicked.
QRet(op, g, ret, panic) == [op |-> op, g |-> g, ret |-> ret, panic |-> panic]

\* The CQ variable before NewCQ: a channel of interface{} values.
NoCQ == [made |-> FALSE, cap |-> 0, buf |-> <<>>]
NewCQ(sz) == [made |-> TRUE, cap |-> sz, buf |-> <<>>]
cqEmpty(q) == Len(q.buf) = 0
cqFull(q) == Len(q.buf) = q.cap

\* ------------------------------------------------------------------------
\* Balance: vine_to_tree and np2 step by step
\* ------------------------------------------------------------------------
\* A tree of n nodes that is a right chain already (n ascending Inserts).
ChainHeap(n) ==
    [V |-> [i \in 1..n |-> i], l |-> [i \in 1..n |-> Nil],
     r |-> [i \in 1..n |-> IF i < n THEN i + 1 ELSE Nil]]
ChainRoot(n) == IF n = 0 THEN Nil ELSE 1

\* A run of Balance: where it is (stage "none", "vine" after tree_to_vine,
\* "first" after the first compress, "later" after a compress of the loop,
\* "done"), the heap and root, vine_to_tree's sz, the node count n, and for
\* the last compress its count, the spine length it was given, and whether
\* it dereferenced nil.
BalRun(stage, h, root, sz, n, count, before, fault) ==
    [stage |-> stage, h |-> h, root |-> root, sz |-> sz, n |-> n,
     count |-> count, before |-> before, fault |-> fault]
NoBal == BalRun("none", ChainHeap(0), Nil, 0, 0, 0, 0, FALSE)

\* A run of np2(i): the loop variable r, the number k of shifts done so far
\* (counted up to IntBits + 1), and the value returned.
Np2Run(stage, i, r, k, ret) ==
    [stage |-> stage, i |-> i, r |-> r, k |-> k, ret |-> ret]
NoNp2 == Np2Run("none", 0, 0, 0, 0)

\* ------------------------------------------------------------------------
\* State
\* ------------------------------------------------------------------------
VARIABLES
    heap,    \* the node cells: heap.V, heap.l, heap.r
    tree,    \* the caller's tree: pointer to the root node, Nil when empty
    nalloc,  \* number of cells New has allocated so far
    nelems,  \* successful Inserts minus successful Removes so far
    last,    \* the last call made and what it returned
    sc,      \* the Scanner made by NewScanner and the arguments it was given
    frames,  \* the producer goroutine's call stack; <<>> when it is not running
    ch,      \* the element channel sc.ch
    quit,    \* the channel sc.quit
    cons,    \* the consumer: where it is, and what it has seen so far
    prod,    \* the producer: what it did after cancellation (history)
    gcx,     \* gctl: the Gcx structures
    gort,    \* gctl: the goroutines started by Gcx.Go
    exits,   \* gctl: per context, the goroutines' exit statuses in exit order
    grp,     \* gctl: the Group structure
    gwait,   \* gctl: the contexts some caller of Gcx.Wait is blocked on
    gcli,    \* gctl: the caller of the Group methods
    gret,    \* gctl: the last step taken in gctl and what it returned
    sq,      \* queue: the SQ or SQU made by NewSQ / NewSQU
    fifo,    \* queue: the elements pushed to sq and not popped yet, in order
    qret,    \* queue: the last queue call and what it returned
    cq,      \* queue: the CQ made by NewCQ
    cqg,     \* queue: the goroutines calling Pop and Push on cq
    bal,     \* Balance: a run of tree_to_vine / vine_to_tree on a chain
    pw       \* Balance: a run of np2

treeVars == <<heap, tree, nalloc, nelems>>
scanVars == <<sc, frames, ch, quit, cons, prod>>
gctlVars == <<gcx, gort, exits, grp, gwait, gcli, gret>>
queueVars == <<sq, fifo, qret, cq, cqg>>
calcVars == <<bal, pw>>
pkgVars == <<gctlVars, queueVars, calcVars>>
vars == <<heap, tree, nalloc, nelems, last, sc, frames, ch, quit, cons, prod,
          gcx, gort, exits, grp, gwait, gcli, gret, sq, fifo, qret, cq, cqg,
          bal, pw>>

Call(op, key, unique, ok, node, elem) ==
    [op |-> op, key |-> key, unique |-> unique, ok |-> ok, node |-> node,
     elem |-> elem]

\* bintree: the empty tree, no scanner.
InitTree ==
    /\ heap = EmptyHeap
    /\ tree = Nil
    /\ nalloc = 0
    /\ nelems = 0
    /\ last = Call("none", 0, FALSE, TRUE, Nil, NoKey)
    /\ sc = NoScanner
    /\ frames = <<>>
    /\ ch = NewChan
    /\ quit = NewChan
    /\ cons = [pc |-> "idle", afterStop |-> FALSE, exhausted |-> FALSE]
    /\ prod = NoProd

\* gctl: every Gcx and the Group hold their zero value, no goroutine runs.
InitGctl ==
    /\ gcx = [c \in Ctxs |-> GcxZero]
    /\ gort = [g \in Gorts |-> NoGort]
    /\ exits = [c \in Ctxs |-> <<>>]
    /\ grp = GroupZero
    /\ gwait = {}
    /\ gcli = [pc |-> "idle", op |-> "none", c |-> 0]
    /\ gret = Ret("none", 0, ErrNil)

\* queue: no queue has been made, no goroutine is inside a CQ method.
InitQueue ==
    /\ sq = NoQueue
    /\ fifo = <<>>
    /\ qret = QRet("none", 0, QNil, FALSE)
    /\ cq = NoCQ
    /\ cqg = [g \in QGorts |-> [pc |-> "idle", e |-> QNil]]

\* Balance step by step: no run has started.
InitCalc ==
    /\ bal = NoBal
    /\ pw = NoNp2

Init == InitTree /\ InitGctl /\ InitQueue /\ InitCalc

\* Storage reclaim: a cell that is neither part of the tree nor the node
\* the call handed back to the caller is cleared.
Collect(h, root, held) ==
    LET live == Reach(h, root) \cup {held} IN
    [V |-> [n \in Nodes |-> IF n \in live THEN h.V[n] ELSE 0],
     l |-> [n \in Nodes |-> IF n \in live THEN h.l[n] ELSE Nil],
     r |-> [n \in Nodes |-> IF n \in live THEN h.r[n] ELSE Nil]]

\* tree, ok = tree.Insert(New(v), unique)
DoInsert(v, unique) ==
    /\ nalloc < MaxNodes
    /\ LET n   == nalloc + 1
           res == Insert(New(heap, n, v), tree, n, unique)
       IN  /\ heap' = Collect(res.h, res.tree, n)
           /\ tree' = res.tree
           /\ nalloc' = n
           /\ nelems' = IF res.ok THEN nelems + 1 ELSE nelems
           /\ last' = Call("Insert", v, unique, res.ok, n, NoKey)
           /\ UNCHANGED <<scanVars, pkgVars>>

\* tree, node, found = tree.Remove(key)
DoRemove(key) ==
    LET res == Remove(heap, tree, key)
    IN  /\ heap' = Collect(res.h, res.tree, res.node)
        /\ tree' = res.tree
        /\ nalloc' = nalloc
        /\ nelems' = IF res.found THEN nelems - 1 ELSE nelems
        /\ last' = Call("Remove", key, FALSE, res.found, res.node, NoKey)
        /\ UNCHANGED <<scanVars, pkgVars>>

\* tree = tree.Balance()
DoBalance ==
    LET res == Balance(heap, tree)
    IN  /\ heap' = Collect(res.h, res.tree, Nil)
        /\ tree' = res.tree
        /\ nalloc' = nalloc
        /\ nelems' = nelems
        /\ last' = Call("Balance", 0, FALSE, ~res.fault, Nil, NoKey)
        /\ UNCHANGED <<scanVars, pkgVars>>

\* Trees built by Insert and Remove only.
NextMut ==
    \/ \E v \in Elems, unique \in BOOLEAN : DoInsert(v, unique)
    \/ \E key \in Elems : DoRemove(key)

SpecMut == Init /\ [][NextMut]_vars

\* Trees built by Insert, Remove and Balance.
Next ==
    \/ \E v \in Elems, unique \in BOOLEAN : DoInsert(v, unique)
    \/ \E key \in Elems : DoRemove(key)
    \/ DoBalance

Spec == Init /\ [][Next]_vars

\* Find(key) on the current tree. Find writes nothing; the node handed back
\* by an earlier Remove is dropped by the caller.
DoFind(key) ==
    LET res == Find(heap, tree, key)
    IN  /\ heap' = Collect(heap, tree, Nil)
        /\ UNCHANGED <<tree, nalloc, nelems>>
        /\ last' = Call("Find", key, FALSE, res.found, Nil, res.elem)
        /\ UNCHANGED <<scanVars, pkgVars>>

NextFind ==
    \/ \E v \in Elems, unique \in BOOLEAN : DoInsert(v, unique)
    \/ \E key \in Elems : DoRemove(key)
    \/ DoBalance
    \/ \E key \in Elems : DoFind(key)

SpecFind == Init /\ [][NextFind]_vars

\* Trees built by Insert with unique = false only, and searched by Find.
NextDup ==
    \/ \E v \in Elems : DoInsert(v, FALSE)
    \/ \E key \in Elems : DoFind(key)

SpecDup == Init /\ [][NextDup]_vars

\* The loop of TestRemove: Remove every element of elems from position i on,
\* in order, stopping at the first that is not found. Yields the heap and
\* root reached, the number of elements removed and whether all were found.
RECURSIVE RemoveEach(_, _, _, _)
RemoveEach(h, root, elems, i) ==
    IF i > Len(elems) THEN [h |-> h, tree |-> root, n |-> 0, ok |-> TRUE]
    ELSE LET res == Remove(h, root, elems[i]) IN
         IF ~res.found THEN [h |-> res.h, tree |-> res.tree, n |-> 0, ok |-> FALSE]
         ELSE LET rest == RemoveEach(res.h, res.tree, elems, i + 1)
              IN  [rest EXCEPT !.n = @ + 1]

\* The elements inserted so far, in insertion order, while every Insert has
\* succeeded and nothing has been removed (node i is the i-th inserted).
Inserted == [i \in 1..nalloc |-> heap.V[i]]

\* Only successful Inserts have been made so far.
OnlyInserted == last.op \in {"none", "Insert"} /\ nalloc = nelems

\* mktree as used by the tests: Insert one more element.
TestInsert(v, unique) == OnlyInserted /\ DoInsert(v, unique)

\* TestRemove on the tree built so far: Remove each inserted element, in
\* insertion order.
DoRemoveEach ==
    /\ OnlyInserted
    /\ LET res == RemoveEach(heap, tree, Inserted, 1)
       IN  /\ heap' = Collect(res.h, res.tree, Nil)
           /\ tree' = res.tree
           /\ nalloc' = nalloc
           /\ nelems' = nelems - res.n
           /\ last' = Call("RemoveEach", 0, FALSE, res.ok, Nil, NoKey)
    /\ UNCHANGED <<scanVars, pkgVars>>

NextTest ==
    \/ \E v \in Elems, unique \in BOOLEAN : TestInsert(v, unique)
    \/ DoRemoveEach

SpecTest == Init /\ [][NextTest]_vars

\* sc = tree.NewScanner(reverse, low, hi): on a non-empty tree the producer
\* goroutine is spawned on the root with top = true, on the empty tree ch is
\* closed. One scanner is made in a run.
DoNewScanner(reverse, low, hi) ==
    /\ ~sc.active
    /\ sc' = Scanner(reverse, low, hi)
    /\ frames' = IF tree # Nil THEN <<Frame(tree, "enter")>> ELSE <<>>
    /\ ch' = IF tree # Nil THEN NewChan ELSE closeChan(NewChan)
    /\ quit' = NewChan
    /\ heap' = Collect(heap, tree, Nil)
    /\ last' = Call("NewScanner", NoKey, FALSE, TRUE, Nil, NoKey)
    /\ UNCHANGED <<tree, nalloc, nelems, cons, prod>>
    /\ UNCHANGED pkgVars

\* The producer enters the node of the invocation just called.
ProdEnterStep ==
    /\ frames # <<>> /\ Top(frames).pc = "enter"
    /\ LET res == scanEnter(heap, frames, sc)
       IN  /\ frames' = res.st
           /\ ch' = IF res.close THEN closeChan(ch) ELSE ch
    /\ UNCHANGED <<treeVars, last, sc, quit, cons>>
    /\ UNCHANGED pkgVars

ProdEnter == ProdEnterStep /\ UNCHANGED prod

\* The producer's select receives from the closed quit channel.
ProdQuitStep ==
    /\ frames # <<>> /\ Top(frames).pc = "select"
    /\ quit.closed
    /\ LET res == scanQuit(heap, frames, sc)
       IN  /\ frames' = res.st
           /\ ch' = IF res.close THEN closeChan(ch) ELSE ch
    /\ UNCHANGED <<treeVars, last, sc, quit, cons>>
    /\ UNCHANGED pkgVars

ProdQuit == ProdQuitStep /\ UNCHANGED prod

\* The producer's select sends root.V to the consumer waiting in Next (ch is
\* unbuffered): Next returns (root.V, true).
ProdSendStep ==
    /\ frames # <<>> /\ Top(frames).pc = "select"
    /\ cons.pc = "recv"
    /\ LET res == scanSend(heap, frames, sc)
       IN  /\ frames' = res.st
           /\ ch' = IF res.close THEN closeChan(ch) ELSE ch
    /\ last' = Call("Next", NoKey, FALSE, TRUE, Nil, heap.V[Top(frames).n])
    /\ cons' = [cons EXCEPT !.pc = "idle"]
    /\ UNCHANGED <<treeVars, sc, quit>>
    /\ UNCHANGED pkgVars

ProdSend == ProdSendStep /\ UNCHANGED prod

\* The consumer calls sc.Next() and waits in the receive from ch.
DoNext ==
    /\ sc.active /\ cons.pc = "idle"
    /\ cons' = [cons EXCEPT !.pc = "recv", !.afterStop = quit.closed]
    /\ UNCHANGED <<treeVars, last, sc, frames, ch, quit, prod>>
    /\ UNCHANGED pkgVars

\* The receive of Next finds ch closed: Next returns (nil, false).
NextClosed ==
    /\ cons.pc = "recv" /\ ch.closed
    /\ last' = Call("Next", NoKey, FALSE, FALSE, Nil, NoKey)
    /\ cons' = [cons EXCEPT !.pc = "idle", !.exhausted = TRUE]
    /\ UNCHANGED <<treeVars, sc, frames, ch, quit, prod>>
    /\ UNCHANGED pkgVars

\* Stop that closes the element channel as well.
DoStop_closesCh ==
    /\ sc.active /\ cons.pc = "idle"
    /\ quit' = closeChan(quit)
    /\ ch' = closeChan(ch)
    /\ last' = Call("Stop", NoKey, FALSE, ~quit.closed, Nil, NoKey)
    /\ UNCHANGED <<treeVars, sc, frames, cons, prod>>
    /\ UNCHANGED pkgVars

\* The consumer calls sc.Stop(): close(sc.quit), which panics when quit is
\* closed already.
DoStop ==
    /\ sc.active /\ cons.pc = "idle"
    /\ quit' = closeChan(quit)
    /\ last' = Call("Stop", NoKey, FALSE, ~quit.closed, Nil, NoKey)
    /\ UNCHANGED <<treeVars, sc, frames, ch, cons, prod>>
    /\ UNCHANGED pkgVars

\* A tree of up to MaxScanNodes nodes is built by Insert (duplicates
\* allowed), then scanned once; the tree is not changed while the scanner
\* exists.
NextScan ==
    \/ \E v \in Elems :
           ~sc.active /\ nalloc < MaxScanNodes /\ DoInsert(v, FALSE)
    \/ \E reverse \in BOOLEAN, low \in Bounds, hi \in Bounds :
           DoNewScanner(reverse, low, hi)
    \/ ProdEnter
    \/ ProdQuit
    \/ ProdSend
    \/ DoNext
    \/ NextClosed
    \/ DoStop

SpecScan == Init /\ [][NextScan]_vars

\* The producer goroutine is scheduled whenever it can run, and a receive
\* from a closed channel completes.
Producer == ProdEnter \/ ProdQuit \/ ProdSend

FairSpecScan == SpecScan /\ WF_vars(Producer) /\ WF_vars(NextClosed)

\* The same steps of the producer with its history recorded in prod.
ProdEnterHist ==
    /\ ProdEnterStep
    /\ prod' = [prod EXCEPT !.late = IF ~quit.closed THEN @
                                     ELSE IF @ < 2 THEN @ + 1 ELSE @]

ProdQuitHist ==
    /\ ProdQuitStep
    /\ prod' = [prod EXCEPT !.observed = TRUE]

ProdSendHist ==
    /\ ProdSendStep
    /\ prod' = [prod EXCEPT !.sent = Append(@, Top(frames).n),
                            !.got = Append(@, last'.elem)]

NextScanHist ==
    \/ \E v \in Elems :
           ~sc.active /\ nalloc < MaxScanNodes /\ DoInsert(v, FALSE)
    \/ \E reverse \in BOOLEAN, low \in Bounds, hi \in Bounds :
           DoNewScanner(reverse, low, hi)
    \/ ProdEnterHist
    \/ ProdQuitHist
    \/ ProdSendHist
    \/ DoNext
    \/ NextClosed
    \/ DoStop

SpecScanHist == Init /\ [][NextScanHist]_vars

\* ------------------------------------------------------------------------
\* gctl: the methods and the goroutines as steps
\* ------------------------------------------------------------------------
\* The goroutine slots not used yet, and the one Gcx.Go uses next.
FreeGorts == {g \in Gorts : gort[g].pc = "free"}
NextGort == CHOOSE g \in FreeGorts : \A o \in FreeGorts : g <= o

\* c.Go(f), called from outside the context (parent = 0) or by goroutine
\* parent of the context while it runs f. On a dead context it panics.
GcxGo(c, parent) ==
    /\ parent # 0 => (gort[parent].pc = "run" /\ gort[parent].ctx = c)
    /\ IF gcx[c].ngort = -1
       THEN /\ gret' = Ret("Go", c, "panic")
            /\ UNCHANGED <<gcx, gort, grp>>
       ELSE /\ FreeGorts # {}
            /\ gcx' = [gcx EXCEPT ![c] = goGcx(@)]
            /\ grp' = IF gcx[c].kill.nil /\ gcx[c].group
                      THEN [grp EXCEPT !.n = @ + 1] ELSE grp
            /\ gort' = [gort EXCEPT ![NextGort] = [ctx |-> c, pc |-> "run"]]
            /\ gret' = Ret(IF parent = 0 THEN "Go" ELSE "GoInside", c, ErrNil)
    /\ UNCHANGED <<exits, gwait, gcli>>
    /\ UNCHANGED <<treeVars, last, scanVars, queueVars, calcVars>>

\* Goroutine g's function f returns err, and the goroutine does its exit
\* bookkeeping under c.mu.
GortExit(g, err) ==
    /\ gort[g].pc = "run"
    /\ LET c   == gort[g].ctx
           res == exitGcx(gcx[c], err)
       IN  /\ gcx' = [gcx EXCEPT ![c] = res.x]
           /\ gort' = [gort EXCEPT ![g] = IF res.last THEN [@ EXCEPT !.pc = "dead"]
                                         ELSE [ctx |-> 0, pc |-> "done"]]
           /\ exits' = [exits EXCEPT ![c] = Append(@, err)]
           /\ gret' = Ret("exit", c, err)
    /\ UNCHANGED <<grp, gwait, gcli>>
    /\ UNCHANGED <<treeVars, last, scanVars, queueVars, calcVars>>

\* The last goroutine of a context closes c.dead.
GortCloseDead(g) ==
    /\ gort[g].pc = "dead"
    /\ LET c == gort[g].ctx
       IN  /\ gcx' = [gcx EXCEPT ![c].dead = CloseChan(@)]
           /\ gort' = [gort EXCEPT ![g] =
                          IF gcx[c].group THEN [@ EXCEPT !.pc = "notify"]
                          ELSE [ctx |-> 0, pc |-> "done"]]
           /\ gret' = Ret("closeDead", c, ErrNil)
    /\ UNCHANGED <<exits, grp, gwait, gcli>>
    /\ UNCHANGED <<treeVars, last, scanVars, queueVars, calcVars>>

\* The last goroutine of a context of the group sends c on g.notify to the
\* caller receiving in Group.Wait, Group.Poll or from ChNotify().
GortNotify(g) ==
    /\ gort[g].pc = "notify"
    /\ gcli.pc \in {"recv", "select"}
    /\ gort' = [gort EXCEPT ![g] = [ctx |-> 0, pc |-> "done"]]
    /\ gcli' = [gcli EXCEPT !.pc = "got", !.c = gort[g].ctx]
    /\ gret' = Ret("notify", gort[g].ctx, ErrNil)
    /\ UNCHANGED <<gcx, exits, grp, gwait>>
    /\ UNCHANGED <<treeVars, last, scanVars, queueVars, calcVars>>

\* c.Kill()
GcxKill(c) ==
    /\ LET res == killGcx(gcx[c])
       IN  /\ gcx' = [gcx EXCEPT ![c] = res.x]
           /\ gret' = Ret("Kill", c, res.ret)
    /\ UNCHANGED <<gort, exits, grp, gwait, gcli>>
    /\ UNCHANGED <<treeVars, last, scanVars, queueVars, calcVars>>

\* c.Wait() is called from outside the context: it returns ErrGcxEmpty on an
\* empty context and otherwise waits in <-c.dead.
GcxWait(c) ==
    /\ c \notin gwait
    /\ IF gcx[c].kill.nil
       THEN gret' = Ret("Wait", c, ErrGcxEmpty) /\ gwait' = gwait
       ELSE gwait' = gwait \cup {c} /\ gret' = Ret("WaitCall", c, ErrNil)
    /\ UNCHANGED <<gcx, gort, exits, grp, gcli>>
    /\ UNCHANGED <<treeVars, last, scanVars, queueVars, calcVars>>

\* c.dead is closed: the waiting c.Wait() returns c.status.
GcxWaitReturn(c) ==
    /\ c \in gwait
    /\ gcx[c].dead.closed
    /\ gwait' = gwait \ {c}
    /\ gret' = Ret("Wait", c, gcx[c].status)
    /\ UNCHANGED <<gcx, gort, exits, grp, gcli>>
    /\ UNCHANGED <<treeVars, last, scanVars, queueVars, calcVars>>

\* c.SetGroup(g): panics on a context that is not empty.
SetGroup(c) ==
    /\ IF ~gcx[c].kill.nil
       THEN gret' = Ret("SetGroup", c, "panic") /\ UNCHANGED <<gcx, grp>>
       ELSE /\ grp' = [grp EXCEPT !.notify = TRUE]
            /\ gcx' = [gcx EXCEPT ![c].group = TRUE]
            /\ gret' = Ret("SetGroup", c, ErrNil)
    /\ UNCHANGED <<gort, exits, gwait, gcli>>
    /\ UNCHANGED <<treeVars, last, scanVars, queueVars, calcVars>>

\* g.Count()
Count == grp.n

\* g.Wait() is called: (nil, nil) when g.n is 0, else it waits in <-g.notify.
GroupWait ==
    /\ gcli.pc = "idle"
    /\ IF grp.n = 0
       THEN gret' = Ret("GroupWait", 0, ErrNil) /\ gcli' = gcli
       ELSE /\ gcli' = [pc |-> "recv", op |-> "GroupWait", c |-> 0]
            /\ gret' = Ret("GroupWaitCall", 0, ErrNil)
    /\ UNCHANGED <<gcx, gort, exits, grp, gwait>>
    /\ UNCHANGED <<treeVars, last, scanVars, queueVars, calcVars>>

\* g.Poll() is called: (nil, nil) when g.n is 0, else it goes to its select.
GroupPoll ==
    /\ gcli.pc = "idle"
    /\ IF grp.n = 0
       THEN gret' = Ret("GroupPoll", 0, ErrNil) /\ gcli' = gcli
       ELSE /\ gcli' = [pc |-> "select", op |-> "GroupPoll", c |-> 0]
            /\ gret' = Ret("GroupPollCall", 0, ErrNil)
    /\ UNCHANGED <<gcx, gort, exits, grp, gwait>>
    /\ UNCHANGED <<treeVars, last, scanVars, queueVars, calcVars>>

\* The select of g.Poll() finds no sender waiting: (nil, nil).
GroupPollDefault ==
    /\ gcli.pc = "select"
    /\ gcli' = [pc |-> "idle", op |-> "none", c |-> 0]
    /\ gret' = Ret("GroupPoll", 0, ErrNil)
    /\ UNCHANGED <<gcx, gort, exits, grp, gwait>>
    /\ UNCHANGED <<treeVars, last, scanVars, queueVars, calcVars>>

\* The caller receives from the channel g.ChNotify() returns; it calls
\* g.Notify(c) with what it receives.
GroupChNotify ==
    /\ gcli.pc = "idle"
    /\ grp' = [grp EXCEPT !.notify = TRUE]
    /\ gcli' = [pc |-> "recv", op |-> "Notify", c |-> 0]
    /\ gret' = Ret("ChNotify", 0, ErrNil)
    /\ UNCHANGED <<gcx, gort, exits, gwait>>
    /\ UNCHANGED <<treeVars, last, scanVars, queueVars, calcVars>>

\* The end of g.Wait(), g.Poll() and g.Notify(c) without g.n--.
GroupFinish_noDecrement ==
    /\ gcli.pc = "got"
    /\ gcx[gcli.c].kill.nil \/ gcx[gcli.c].dead.closed
    /\ grp' = [grp EXCEPT !.returned = Append(@, gcli.c)]
    /\ gret' = Ret(gcli.op, gcli.c,
                   IF gcx[gcli.c].kill.nil THEN ErrGcxEmpty
                   ELSE gcx[gcli.c].status)
    /\ gcli' = [pc |-> "idle", op |-> "none", c |-> 0]
    /\ UNCHANGED <<gcx, gort, exits, gwait>>
    /\ UNCHANGED <<treeVars, last, scanVars, queueVars, calcVars>>

\* After the receive, g.Wait(), g.Poll() and g.Notify(c) decrement g.n and
\* return c.Wait().
GroupFinish ==
    /\ gcli.pc = "got"
    /\ gcx[gcli.c].kill.nil \/ gcx[gcli.c].dead.closed
    /\ grp' = [grp EXCEPT !.n = @ - 1, !.returned = Append(@, gcli.c)]
    /\ gret' = Ret(gcli.op, gcli.c,
                   IF gcx[gcli.c].kill.nil THEN ErrGcxEmpty
                   ELSE gcx[gcli.c].status)
    /\ gcli' = [pc |-> "idle", op |-> "none", c |-> 0]
    /\ UNCHANGED <<gcx, gort, exits, gwait>>
    /\ UNCHANGED <<treeVars, last, scanVars, queueVars, calcVars>>

\* A context outside a group shares nothing with other contexts: context 1
\* alone, with Go from outside and inside, goroutine exits, Kill and Wait in
\* every interleaving.
NextGcx ==
    \/ \E parent \in {0} \cup Gorts : GcxGo(1, parent)
    \/ \E g \in Gorts, err \in Statuses : GortExit(g, err)
    \/ \E g \in Gorts : GortCloseDead(g)
    \/ GcxKill(1)
    \/ GcxWait(1)
    \/ GcxWaitReturn(1)

SpecGcx == Init /\ [][NextGcx]_vars

\* The contexts and the group; goroutines are started from outside and
\* exit with nil.
NextGroup ==
    \/ \E c \in Ctxs : SetGroup(c)
    \/ \E c \in Ctxs : GcxGo(c, 0)
    \/ \E g \in Gorts : GortExit(g, ErrNil)
    \/ \E g \in Gorts : GortCloseDead(g)
    \/ \E c \in Ctxs : GcxWait(c)
    \/ \E c \in Ctxs : GcxWaitReturn(c)
    \/ \E g \in Gorts : GortNotify(g)
    \/ GroupWait
    \/ GroupPoll
    \/ GroupPollDefault
    \/ GroupChNotify
    \/ GroupFinish

SpecGroup == Init /\ [][NextGroup]_vars

\* ------------------------------------------------------------------------
\* queue: the calls as steps
\* ------------------------------------------------------------------------
\* NewSQ(sz) / NewSQU(sz): panics unless sz passes the size test.
DoNewQ(kind, sz) ==
    /\ sq.kind = "none"
    /\ IF ValidSize(sz)
       THEN /\ sq' = NewQ(kind, sz)
            /\ qret' = QRet("New", 0, QNil, FALSE)
       ELSE /\ sq' = sq
            /\ qret' = QRet("New", 0, QNil, TRUE)
    /\ UNCHANGED <<fifo, cq, cqg>>
    /\ UNCHANGED <<treeVars, last, scanVars, gctlVars, calcVars>>

\* sq.Push(e). A call on an SQ whose mutex is held does not get in.
DoPush(e) ==
    /\ sq.kind # "none"
    /\ ~sq.mu
    /\ LET r == qPush(sq, e) IN
         /\ sq' = r.q
         /\ fifo' = IF r.panic THEN fifo ELSE Append(fifo, e)
         /\ qret' = QRet("Push", 0, e, r.panic)
    /\ UNCHANGED <<cq, cqg>>
    /\ UNCHANGED <<treeVars, last, scanVars, gctlVars, calcVars>>

\* sq.Pop().
DoPop ==
    /\ sq.kind # "none"
    /\ ~sq.mu
    /\ LET r == qPop(sq) IN
         /\ sq' = r.q
         /\ fifo' = IF r.panic THEN fifo ELSE Tail(fifo)
         /\ qret' = QRet("Pop", 0, r.ret, r.panic)
    /\ UNCHANGED <<cq, cqg>>
    /\ UNCHANGED <<treeVars, last, scanVars, gctlVars, calcVars>>

\* sq.Peek().
DoPeek ==
    /\ sq.kind # "none"
    /\ ~sq.mu
    /\ LET r == qPeek(sq) IN
         /\ sq' = r.q
         /\ qret' = QRet("Peek", 0, r.ret, r.panic)
    /\ UNCHANGED <<fifo, cq, cqg>>
    /\ UNCHANGED <<treeVars, last, scanVars, gctlVars, calcVars>>

NextSQ ==
    \/ \E kind \in {"SQ", "SQU"}, sz \in QSizes : DoNewQ(kind, sz)
    \/ \E e \in QElems : DoPush(e)
    \/ DoPop
    \/ DoPeek

SpecSQ == Init /\ [][NextSQ]_vars

\* NewCQ(sz).
DoNewCQ(sz) ==
    /\ ~cq.made
    /\ cq' = NewCQ(sz)
    /\ qret' = QRet("NewCQ", 0, QNil, FALSE)
    /\ UNCHANGED <<sq, fifo, cqg>>
    /\ UNCHANGED <<treeVars, last, scanVars, gctlVars, calcVars>>

\* cq.Pop() by goroutine g, up to the receive: panics if cq.Empty().
CQPopCheck(g) ==
    /\ cq.made
    /\ cqg[g].pc = "idle"
    /\ IF cqEmpty(cq)
       THEN /\ qret' = QRet("Pop", g, QNil, TRUE)
            /\ cqg' = cqg
       ELSE /\ qret' = QRet("PopCall", g, QNil, FALSE)
            /\ cqg' = [cqg EXCEPT ![g].pc = "recv"]
    /\ UNCHANGED <<sq, fifo, cq>>
    /\ UNCHANGED <<treeVars, last, scanVars, gctlVars, calcVars>>

\* cq.Pop(): return <-cq. The receive waits while the channel is empty.
CQPopRecv(g) ==
    /\ cqg[g].pc = "recv"
    /\ cq.buf # <<>>
    /\ cq' = [cq EXCEPT !.buf = Tail(@)]
    /\ cqg' = [cqg EXCEPT ![g].pc = "idle"]
    /\ qret' = QRet("Pop", g, Head(cq.buf), FALSE)
    /\ UNCHANGED <<sq, fifo>>
    /\ UNCHANGED <<treeVars, last, scanVars, gctlVars, calcVars>>

\* cq.Push(e) by goroutine g, up to the send: panics if cq.Full().
CQPushCheck(g, e) ==
    /\ cq.made
    /\ cqg[g].pc = "idle"
    /\ IF cqFull(cq)
       THEN /\ qret' = QRet("Push", g, e, TRUE)
            /\ cqg' = cqg
       ELSE /\ qret' = QRet("PushCall", g, e, FALSE)
            /\ cqg' = [cqg EXCEPT ![g] = [pc |-> "send", e |-> e]]
    /\ UNCHANGED <<sq, fifo, cq>>
    /\ UNCHANGED <<treeVars, last, scanVars, gctlVars, calcVars>>

\* cq.Push(e): cq <- e. The send waits while the channel buffer is full.
CQPushSend(g) ==
    /\ cqg[g].pc = "send"
    /\ Len(cq.buf) < cq.cap
    /\ cq' = [cq EXCEPT !.buf = Append(@, cqg[g].e)]
    /\ cqg' = [cqg EXCEPT ![g] = [pc |-> "idle", e |-> QNil]]
    /\ qret' = QRet("Push", g, cqg[g].e, FALSE)
    /\ UNCHANGED <<sq, fifo>>
    /\ UNCHANGED <<treeVars, last, scanVars, gctlVars, calcVars>>

NextCQ ==
    \/ \E sz \in QSizes : DoNewCQ(sz)
    \/ \E g \in QGorts : CQPopCheck(g)
    \/ \E g \in QGorts : CQPopRecv(g)
    \/ \E g \in QGorts, e \in QElems : CQPushCheck(g, e)
    \/ \E g \in QGorts : CQPushSend(g)

SpecCQ == Init /\ [][NextCQ]_vars

\* ------------------------------------------------------------------------
\* Balance: vine_to_tree and np2 as steps
\* ------------------------------------------------------------------------
\* Balance on a chain of n nodes, up to the return of tree_to_vine.
BalVine(n) ==
    /\ bal.stage = "none"
    /\ LET v == tree_to_vine(ChainHeap(n), ChainRoot(n))
       IN  bal' = BalRun("vine", v.h, v.tree, v.sz, n, 0, 0, FALSE)
    /\ UNCHANGED pw
    /\ UNCHANGED <<treeVars, last, scanVars, gctlVars, queueVars>>

\* vine_to_tree: lc := sz + 1 - np2(sz+1); root = compress(root, lc);
\* sz -= lc.
BalFirst ==
    /\ bal.stage = "vine"
    /\ LET lc == firstCount(bal.sz)
           c  == compress(bal.h, bal.root, lc)
       IN  bal' = BalRun("first", c.h, c.tree, bal.sz - lc, bal.n, lc,
                         SpineLen(bal.h, bal.root), c.fault)
    /\ UNCHANGED pw
    /\ UNCHANGED <<treeVars, last, scanVars, gctlVars, queueVars>>

\* vine_to_tree: one turn of the loop, root = compress(root, sz>>1);
\* sz >>= 1.
BalLater ==
    /\ bal.stage \in {"first", "later"}
    /\ ~bal.fault
    /\ bal.sz > 1
    /\ LET m == bal.sz \div 2
           c == compress(bal.h, bal.root, m)
       IN  bal' = BalRun("later", c.h, c.tree, m, bal.n, m,
                         SpineLen(bal.h, bal.root), c.fault)
    /\ UNCHANGED pw
    /\ UNCHANGED <<treeVars, last, scanVars, gctlVars, queueVars>>

\* vine_to_tree leaves the loop and Balance returns the root.
BalReturn ==
    /\ bal.stage \in {"first", "later"}
    /\ ~bal.fault
    /\ ~(bal.sz > 1)
    /\ bal' = [bal EXCEPT !.stage = "done"]
    /\ UNCHANGED pw
    /\ UNCHANGED <<treeVars, last, scanVars, gctlVars, queueVars>>

\* np2(i) is called: r := 1.
Np2Call(i) ==
    /\ pw.stage = "none"
    /\ pw' = Np2Run("loop", i, 1, 0, 0)
    /\ UNCHANGED bal
    /\ UNCHANGED <<treeVars, last, scanVars, gctlVars, queueVars>>

\* np2: one test of r <= i, followed by r <<= 1 or by return r >> 1.
Np2Step ==
    /\ pw.stage = "loop"
    /\ IF pw.r <= pw.i
       THEN pw' = [pw EXCEPT !.r = Shl1(pw.r),
                             !.k = IF @ <= IntBits THEN @ + 1 ELSE @]
       ELSE pw' = [pw EXCEPT !.stage = "done", !.ret = Shr1(pw.r)]
    /\ UNCHANGED bal
    /\ UNCHANGED <<treeVars, last, scanVars, gctlVars, queueVars>>

NextCalc ==
    \/ \E n \in 0..MaxVine : BalVine(n)
    \/ BalFirst
    \/ BalLater
    \/ BalReturn
    \/ \E i \in 1..IntMax : Np2Call(i)
    \/ Np2Step

SpecCalc == Init /\ [][NextCalc]_vars

\* ------------------------------------------------------------------------
\* Reference notions the properties are stated with
\* ------------------------------------------------------------------------
\* The elements of a sequence of nodes.
Vals(h, s) == [i \in 1..Len(s) |-> h.V[s[i]]]

\* A sequence of elements is non-decreasing by Cmp.
Sorted(s) == \A i \in 1..(Len(s) - 1) : Cmp(s[i], s[i + 1]) <= 0

\* No node occurs twice in a sequence of nodes.
NoRepeat(s) == \A i, j \in 1..Len(s) : s[i] = s[j] => i = j

\* A sequence in reverse order.
Reverse(s) == [i \in 1..Len(s) |-> s[Len(s) + 1 - i]]

\* The set of the members of a sequence.
Range(s) == {s[i] : i \in 1..Len(s)}

\* v is within the closed range [low, hi]; a nil bound does not restrict.
InRange(v, low, hi) ==
    /\ low # NoKey => Cmp(low, v) <= 0
    /\ hi # NoKey => Cmp(hi, v) >= 0

\* The bounds of a non-empty range: low <= hi when both are given.
Ordered(low, hi) == low = NoKey \/ hi = NoKey \/ Cmp(low, hi) <= 0

\* The nodes of the tree, and the stored elements equal to key.
Stored == Reach(heap, tree)
Holds(key) == \E n \in Stored : Cmp(key, heap.V[n]) = 0

\* ------------------------------------------------------------------------
\* C1..C10
\* ------------------------------------------------------------------------

\* C1: after any sequence of Insert and Remove from the empty tree, the
\* unbounded ascending scan drained to the end is non-decreasing and its
\* length is the number of successful Inserts minus successful Removes.
C1_ScanSortedAndCounted ==
    LET s == Drain(heap, tree, FALSE, NoKey, NoKey)
    IN  Sorted(s) /\ Len(s) = nelems

\* A successful Remove has left a tree of at least three elements, two of
\* them equal.
C1_Witness ==
    /\ last.op = "Remove" /\ last.ok
    /\ nelems >= 3
    /\ \E m, n \in Stored : m # n /\ heap.V[m] = heap.V[n]

\* C2: on a tree built by Insert and Remove, an ascending scan with
\* low <= hi returns exactly the stored nodes whose element is within
\* [low, hi], each once, in non-decreasing order.
C2_RangeScanExact ==
    \A low, hi \in Bounds :
        Ordered(low, hi) =>
            LET s == NewScanner(heap, tree, FALSE, low, hi)
            IN  /\ NoRepeat(s)
                /\ Range(s) = {n \in Stored : InRange(heap.V[n], low, hi)}
                /\ Sorted(Vals(heap, s))
                /\ Drain(heap, tree, FALSE, low, hi) = Vals(heap, s)

\* After a Remove, a scan of [2, 2] returns an element and leaves out a
\* stored element below the range and one above it.
C2_Witness ==
    /\ last.op = "Remove" /\ last.ok
    /\ Len(Drain(heap, tree, FALSE, 2, 2)) >= 1
    /\ \E m, n \in Stored : heap.V[m] < 2 /\ heap.V[n] > 2

\* C3: every element a scan returns is within the bounds given, for
\* every pair of bounds, also when low is greater than hi.
C3_ScanWithinBounds ==
    \A reverse \in BOOLEAN, low, hi \in Bounds :
        LET s == Drain(heap, tree, reverse, low, hi)
        IN  \A i \in 1..Len(s) : InRange(s[i], low, hi)

\* C4: Balance changes the result of no scan, whatever the direction and
\* the bounds, also on trees that hold equal elements.
C4_BalanceKeepsEveryScan ==
    [][last'.op = "Balance" =>
        \A reverse \in BOOLEAN, low, hi \in Bounds :
            Drain(heap', tree', reverse, low, hi) = Drain(heap, tree, reverse, low, hi)]_vars

\* C5: with the same tree and bounds, the descending scan returns the
\* ascending scan's elements in reverse order.
C5_ReverseScanIsReverse ==
    \A low, hi \in Bounds :
        Drain(heap, tree, TRUE, low, hi) = Reverse(Drain(heap, tree, FALSE, low, hi))

\* A descending scan from low = 2 returns three or more elements, not all
\* equal, and leaves out a stored element below 2.
C5_Witness ==
    LET s == Drain(heap, tree, TRUE, 2, NoKey)
    IN  /\ Len(s) >= 3
        /\ s[1] > s[Len(s)]
        /\ \E n \in Stored : heap.V[n] < 2

\* floor(log2(i)) for i >= 1.
RECURSIVE lg2(_)
lg2(i) == IF i <= 1 THEN 0 ELSE 1 + lg2(i \div 2)

\* C6: Balance of a tree of n >= 1 nodes completes and returns a tree of
\* height floor(log2(n)) + 1.
C6_BalancedHeight ==
    [][(last'.op = "Balance" /\ tree # Nil) =>
        /\ last'.ok
        /\ Height(heap', tree') = lg2(Cardinality(Stored)) + 1]_vars

\* Balance has returned a tree of four nodes and height three.
C6_Witness ==
    /\ last.op = "Balance" /\ last.ok
    /\ Cardinality(Stored) = 4
    /\ Height(heap, tree) = 3

\* C7: Balance keeps the unbounded ascending scan, element for element,
\* and the set of nodes reachable from the root.
C7_BalanceKeepsContent ==
    [][last'.op = "Balance" =>
        /\ Drain(heap', tree', FALSE, NoKey, NoKey) = Drain(heap, tree, FALSE, NoKey, NoKey)
        /\ Reach(heap', tree') = Stored]_vars

\* Balance has returned a tree of three or more nodes, two of them equal,
\* whose root has both children.
C7_Witness ==
    /\ last.op = "Balance" /\ last.ok
    /\ Cardinality(Stored) >= 3
    /\ heap.l[tree] # Nil /\ heap.r[tree] # Nil
    /\ \E m, n \in Stored : m # n /\ heap.V[m] = heap.V[n]

\* Node m has the same element and child links in heaps g and h.
SameNode(g, h, m) == g.V[m] = h.V[m] /\ g.l[m] = h.l[m] /\ g.r[m] = h.r[m]

\* C8: Insert with unique = true of an element equal to a stored one
\* returns ok = false; the root and every node of the tree are as before and
\* the new node is not part of the tree.
C8_UniqueInsertRejected ==
    [][(last'.op = "Insert" /\ last'.unique /\ Holds(last'.key)) =>
        /\ ~last'.ok
        /\ tree' = tree
        /\ \A m \in Stored : SameNode(heap', heap, m)
        /\ last'.node \notin Reach(heap', tree')]_vars

\* A unique Insert was rejected by an equal element that is not the root,
\* in a tree of three or more nodes.
C8_Witness ==
    /\ last.op = "Insert" /\ last.unique /\ ~last.ok
    /\ Cardinality(Stored) >= 3
    /\ heap.V[tree] # last.key

\* The child links of the tree's nodes that differ between heaps g and h.
ChangedLinks(g, h, nodes) ==
    {m \in nodes : g.l[m] # h.l[m]} \cup {-m : m \in {k \in nodes : g.r[k] # h.r[k]}}

\* C9: Insert with unique = false returns ok = true and adds the new node
\* and nothing else: into the empty tree as the root; otherwise the root is
\* the same, exactly one child link changes, from nil to the new node, the
\* new node is a leaf and every element is as before.
C9_InsertAddsOneLeaf ==
    [][(last'.op = "Insert" /\ ~last'.unique) =>
        LET n == last'.node IN
        /\ last'.ok
        /\ n \notin Stored
        /\ Reach(heap', tree') = Stored \cup {n}
        /\ heap'.V[n] = last'.key /\ heap'.l[n] = Nil /\ heap'.r[n] = Nil
        /\ \A m \in Stored : heap'.V[m] = heap.V[m]
        /\ IF tree = Nil
           THEN tree' = n
           ELSE /\ tree' = tree
                /\ Cardinality(ChangedLinks(heap', heap, Stored)) = 1
                /\ \A m \in Stored :
                      /\ heap'.l[m] # heap.l[m] => heap.l[m] = Nil /\ heap'.l[m] = n
                      /\ heap'.r[m] # heap.r[m] => heap.r[m] = Nil /\ heap'.r[m] = n]_vars

\* A non-unique Insert of an element equal to a stored one has added the
\* fourth node, below a node that is not the root.
C9_Witness ==
    /\ last.op = "Insert" /\ ~last.unique /\ last.ok
    /\ Cardinality(Stored) = 4
    /\ \E m \in Stored \ {last.node} : heap.V[m] = last.key
    /\ heap.l[tree] # last.node /\ heap.r[tree] # last.node

\* C10: Remove of a key equal to no stored element returns found = false
\* and a nil node; the root, every node of the tree and the unbounded scan
\* are as before.
C10_RemoveAbsentKey ==
    [][(last'.op = "Remove" /\ ~Holds(last'.key)) =>
        /\ ~last'.ok
        /\ last'.node = Nil
        /\ tree' = tree
        /\ \A m \in Stored : SameNode(heap', heap, m)
        /\ Drain(heap', tree', FALSE, NoKey, NoKey) = Drain(heap, tree, FALSE, NoKey, NoKey)]_vars

\* A Remove found nothing for a key that lies between two stored elements
\* of a tree of three or more nodes.
C10_Witness ==
    /\ last.op = "Remove" /\ ~last.ok /\ last.node = Nil
    /\ Cardinality(Stored) >= 3
    /\ \E m, n \in Stored : heap.V[m] < last.key /\ last.key < heap.V[n]

\* ------------------------------------------------------------------------
\* C11..C20
\* ------------------------------------------------------------------------

\* The sequence s without its i-th member.
RemoveAt(s, i) == SubSeq(s, 1, i - 1) \o SubSeq(s, i + 1, Len(s))

\* C11: Remove of a key equal to a stored element returns found = true,
\* and the unbounded ascending scan of the returned tree is the scan of the
\* tree before with one occurrence of the key deleted, still sorted.
C11_RemoveDeletesOneOccurrence ==
    [][(last'.op = "Remove" /\ Holds(last'.key)) =>
        LET before == Drain(heap, tree, FALSE, NoKey, NoKey)
            after  == Drain(heap', tree', FALSE, NoKey, NoKey)
        IN  /\ last'.ok
            /\ \E i \in 1..Len(before) :
                  Cmp(last'.key, before[i]) = 0 /\ after = RemoveAt(before, i)
            /\ Sorted(after)]_vars

\* A Remove has located a node with both children that is not the root (the
\* node it returns is still part of the tree).
C11_Witness ==
    /\ last.op = "Remove" /\ last.ok
    /\ last.node \in Stored /\ last.node # tree
    /\ Cardinality(Stored) >= 3

\* C12: when Remove reports found = true the node it returns is not
\* reachable from the returned root and holds an element equal to the key.
C12_ReturnedNodeIsRemoved ==
    (last.op = "Remove" /\ last.ok) =>
        /\ last.node \notin Stored
        /\ Cmp(last.key, heap.V[last.node]) = 0

\* C13: after any sequence of Insert, Remove and Balance, Find(key) returns
\* (v, true) with key.Cmp(v) = 0 exactly when some stored element compares
\* equal to key and (nil, false) otherwise, and it leaves the root and every
\* stored node as they were.
C13_FindIffStored ==
    [][last'.op = "Find" =>
        /\ last'.ok <=> Holds(last'.key)
        /\ last'.ok => Cmp(last'.key, last'.elem) = 0
        /\ ~last'.ok => last'.elem = NoKey
        /\ tree' = tree
        /\ \A n \in Stored : SameNode(heap, heap', n)]_vars

\* Find has met its element below the root of a tree of at least three
\* nodes.
C13_Witness ==
    /\ last.op = "Find" /\ last.ok
    /\ Cmp(last.key, heap.V[tree]) # 0
    /\ Cardinality(Stored) >= 3

\* C14: a second or later Stop on the same Scanner returns normally, without
\* a fault, whatever the producer is doing.
C14_StopTwiceNoFault ==
    [][(last'.op = "Stop" /\ quit.closed /\ quit'.closed) => last'.ok]_vars

\* C15: one Stop after natural exhaustion (Next has returned ok = false, or
\* the scanner was made on the empty tree) returns without fault and changes
\* nothing the consumer can observe: a Next that returns afterwards still
\* returns (nil, false).
C15_StopAfterExhaustion ==
    [][/\ (((cons.exhausted \/ tree = Nil) /\ ~quit.closed /\ quit'.closed)
             => /\ last'.op = "Stop" /\ last'.ok /\ ~quit'.fault
                /\ UNCHANGED <<treeVars, sc, frames, ch, cons, prod>>
                /\ ch.closed)
       /\ (((cons.exhausted \/ tree = Nil) /\ cons.afterStop
               /\ cons.pc = "recv" /\ cons'.pc = "idle")
             => last' = Call("Next", NoKey, FALSE, FALSE, Nil, NoKey))]_vars

\* After a scan of a non-empty tree ran to its end, Stop was called once and
\* a Next called after that has returned.
C15_Witness ==
    /\ cons.exhausted /\ tree # Nil
    /\ quit.closed /\ ~quit.fault
    /\ cons.afterStop /\ cons.pc = "idle"
    /\ last.op = "Next"

\* C16: once Stop has returned, every Next called afterwards reports
\* ok = false: no element is delivered after Stop.
C16_NoElementAfterStop ==
    (last.op = "Next" /\ cons.pc = "idle" /\ cons.afterStop) => ~last.ok

\* C17: after Stop, in every fair execution the producer goroutine
\* terminates and ch is closed, whether or not Next is called; and a Next
\* waiting after Stop returns.
C17_StopEndsProducer ==
    /\ quit.closed ~> (frames = <<>> /\ ch.closed)
    /\ (quit.closed /\ cons.pc = "recv") ~> (cons.pc = "idle")

\* Stop was the last call on a scanner of a tree of two or more nodes, no
\* Next has seen the end, and the producer has terminated and closed ch.
C17_Witness ==
    /\ last.op = "Stop" /\ ~cons.exhausted
    /\ Cardinality(Stored) >= 2
    /\ frames = <<>> /\ ch.closed

\* C18: once Next has returned ok = false, or on a scanner made on the
\* empty tree, the producer is gone and ch is closed (a Next does not
\* block), and every Next that returns, returns (nil, false).
C18_TerminalAbsorbing ==
    [][/\ cons'.exhausted => (frames' = <<>> /\ ch'.closed)
       /\ (sc'.active /\ tree' = Nil) => (frames' = <<>> /\ ch'.closed)
       /\ ((cons.exhausted \/ tree = Nil) /\ cons.pc = "recv"
              /\ cons'.pc = "idle")
            => last' = Call("Next", NoKey, FALSE, FALSE, Nil, NoKey)]_vars

\* A Next has returned ok = false at the end of a scan that delivered the
\* elements of a non-empty tree, and Stop was never called.
C18_Witness ==
    /\ cons.exhausted /\ cons.pc = "idle" /\ last.op = "Next"
    /\ tree # Nil /\ ~quit.closed

\* C19: in every tree reachable by Insert (unique or not), Remove and
\* Balance, for every node n every element of n's left subtree compares
\* strictly less than n's element and every element of n's right subtree
\* compares greater than or equal to it.
C19_BSTOrdering ==
    \A n \in Stored :
        /\ \A m \in Reach(heap, heap.l[n]) : Cmp(heap.V[m], heap.V[n]) < 0
        /\ \A m \in Reach(heap, heap.r[n]) : Cmp(heap.V[m], heap.V[n]) >= 0

\* Number of child links of stored nodes that point at node m.
InLinks(m) ==
    Cardinality({n \in Stored : heap.l[n] = m})
        + Cardinality({n \in Stored : heap.r[n] = m})

\* C20: with every inserted node fresh, after any sequence of Insert, Remove
\* and Balance the nodes reachable from the root form a tree: the root is
\* nobody's child and every other node is the child of exactly one node
\* through exactly one link (so there is no cycle and no shared node).
C20_IsTree ==
    \A m \in Stored : InLinks(m) = (IF m = tree THEN 0 ELSE 1)

\* Balance has just rebuilt a tree of three or more nodes.
C20_Witness ==
    /\ last.op = "Balance" /\ last.ok
    /\ Cardinality(Stored) >= 3

\* C21: after any elements were inserted with duplicates allowed, Remove
\* called once per inserted occurrence, in insertion order, reports found
\* every time and ends with the empty tree.
C21_RemoveEachEmpties ==
    last.op = "RemoveEach" => (last.ok /\ tree = Nil /\ nelems = 0)

\* Every inserted element of a tree of three or more has been removed.
C21_Witness ==
    last.op = "RemoveEach" /\ nalloc >= 3 /\ tree = Nil

\* A sequence of elements is strictly descending / strictly ascending by Cmp.
Descending(s) == \A i \in 1..(Len(s) - 1) : Cmp(s[i], s[i + 1]) > 0
Ascending(s) == \A i \in 1..(Len(s) - 1) : Cmp(s[i], s[i + 1]) < 0

\* C22: Insert does not rebalance: after n distinct keys inserted in
\* strictly descending or strictly ascending order the Height is n, and the
\* Height of the empty tree is 0.
C22_MonotoneInsertHeight ==
    /\ tree = Nil => Height(heap, tree) = 0
    /\ (OnlyInserted /\ (Descending(Inserted) \/ Ascending(Inserted)))
         => Height(heap, tree) = nalloc

\* Three keys have been inserted in strictly descending order.
C22_Witness ==
    /\ OnlyInserted /\ nalloc = 3
    /\ Descending(Inserted)

\* The exit status Gcx.Go documents for a context whose goroutines exited
\* with the statuses s, in this order.
ExitStatus(s) ==
    LET errs == {i \in 1..Len(s) : s[i] \notin {ErrNil, ErrKilled}} IN
    IF errs # {} THEN s[CHOOSE i \in errs : \A j \in errs : i <= j]
    ELSE IF \E i \in 1..Len(s) : s[i] = ErrKilled THEN ErrKilled
    ELSE ErrNil

\* C23: Wait on a started context returns once the context is dead, and
\* returns the first non-nil, non-ErrKilled exit status of its goroutines in
\* order of exit, nil if all returned nil, ErrKilled if all returned nil or
\* ErrKilled and one at least ErrKilled, in every interleaving of exits and
\* Kill calls.
C23_WaitExitStatus ==
    (gret.op = "Wait" /\ gret.ret # ErrGcxEmpty) =>
        /\ gcx[gret.c].dead.closed
        /\ gret.ret = ExitStatus(exits[gret.c])
        /\ gcx[gret.c].status = ExitStatus(exits[gret.c])

\* Wait has returned the error of the second goroutine to exit, the first
\* having exited with ErrKilled.
C23_Witness ==
    /\ gret.op = "Wait" /\ gret.ret \in UserErrs
    /\ Len(exits[gret.c]) = 2
    /\ exits[gret.c][1] = ErrKilled

\* C24: however often and in whatever interleaving with goroutine exits Kill
\* is called, c.kill is never closed twice; Kill on an empty context returns
\* ErrGcxEmpty and changes nothing; Kill on a started or dead context returns
\* nil, with c.kill closed.
C24_KillOnce ==
    [][/\ \A c \in Ctxs : ~gcx'[c].kill.fault
       /\ gret'.op = "Kill" =>
            IF gcx[gret'.c].kill.nil
            THEN gret'.ret = ErrGcxEmpty /\ gcx' = gcx
            ELSE /\ gret'.ret = ErrNil
                 /\ gcx'[gret'.c].kill.closed /\ gcx'[gret'.c].signaled]_vars

\* Kill has returned nil on a context whose kill channel a goroutine exiting
\* with an error had closed before.
C24_Witness ==
    /\ gret.op = "Kill" /\ gret.ret = ErrNil
    /\ gcx[gret.c].status \in UserErrs
    /\ gcx[gret.c].ngort > 0

\* The goroutines of context c that are inside f, in the goroutine table gt.
Running(gt, c) == {g \in Gorts : gt[g].ctx = c /\ gt[g].pc = "run"}

\* C25: a started context is dead exactly when none of its goroutines is
\* left (those started from inside the context included), and until then
\* c.ngort counts them; Wait on a started context returns only when all its
\* goroutines have exited; Wait on an empty context returns ErrGcxEmpty at
\* once; Go on a dead context panics and starts nothing.
C25_DeadWhenLastExits ==
    [][/\ \A c \in Ctxs :
            /\ gcx'[c].kill.nil => (gcx'[c].ngort = 0 /\ Running(gort', c) = {})
            /\ ~gcx'[c].kill.nil =>
                 IF Running(gort', c) = {} THEN gcx'[c].ngort = -1
                 ELSE gcx'[c].ngort = Cardinality(Running(gort', c))
            /\ gcx'[c].dead.closed => gcx'[c].ngort = -1
       /\ (gret'.op = "Wait" /\ gret'.ret # ErrGcxEmpty)
            => (Running(gort', gret'.c) = {} /\ gcx'[gret'.c].ngort = -1)
       /\ gret'.op = "Wait" /\ gret'.ret = ErrGcxEmpty => gcx[gret'.c].kill.nil
       /\ gret'.op = "WaitCall" => ~gcx[gret'.c].kill.nil
       /\ gret'.op \in {"Go", "GoInside"} =>
            IF gcx[gret'.c].ngort = -1
            THEN gret'.ret = "panic" /\ gort' = gort /\ gcx' = gcx
            ELSE gret'.ret = ErrNil /\ Cardinality(Running(gort', gret'.c))
                                         = Cardinality(Running(gort, gret'.c)) + 1]_vars

\* A goroutine of the context has started a second one with Go.
C25_Witness ==
    /\ gret.op = "GoInside" /\ gret.ret = ErrNil
    /\ gcx[gret.c].ngort = 2

\* The members of the group: the contexts with the group set that have been
\* started and whose exit status no Group method has returned yet.
Members ==
    {c \in Ctxs : gcx[c].group /\ ~gcx[c].kill.nil
                    /\ \A i \in 1..Len(grp.returned) : grp.returned[i] # c}

\* C26: between calls of the Group methods, Count() is the number of
\* members; SetGroup alone and Gcx.Wait do not change it; a context is
\* returned by Wait, Poll or Notify at most once and only when it is dead;
\* and Group.Wait and Group.Poll return (nil, nil) at once when the count
\* is 0, and only Poll does when it is not.
C26_GroupCount ==
    [][/\ gcli'.pc = "idle" => Count' = Cardinality(Members')
       /\ gret'.op \in {"SetGroup", "Wait", "WaitCall"} => Count' = Count
       /\ NoRepeat(grp'.returned)
       /\ \A i \in 1..Len(grp'.returned) : gcx'[grp'.returned[i]].dead.closed
       /\ gret'.op \in {"GroupWaitCall", "GroupPollCall"} => Count # 0
       /\ (gret'.op = "GroupWait" /\ gret'.c = 0) => Count = 0
       /\ (gret'.op \in {"GroupWait", "GroupPoll", "Notify"} /\ gret'.c # 0)
            => (Count' = Count - 1 /\ gret'.ret = gcx[gret'.c].status)]_vars

\* Of two members one has terminated and has been returned by Group.Poll;
\* the other is still counted.
C26_Witness ==
    /\ gret.op = "GroupPoll" /\ gret.c # 0
    /\ Count = 1 /\ Len(grp.returned) = 1
    /\ \A c \in Ctxs : gcx[c].group

\* The queue's view of itself agrees with the elements pushed and not popped.
QueueAgrees(q, f) ==
    /\ qLen(q) = Len(f)
    /\ qEmpty(q) <=> Len(f) = 0
    /\ qFull(q) <=> Len(f) = qCap(q)
    /\ \A i \in 1..Len(f) : q.b[BitAnd(u32(q.s + i - 1), q.m)] = f[i]

\* C27: SQ and SQU: Pop returns the elements in push order, Len is pushes
\* minus pops, Empty holds iff Len is 0 and Full iff Len equals Cap, also
\* after the start and end indices have wrapped around the word size; a call
\* panics only if it is a Pop or Peek on the empty or a Push on the full queue.
C27_QueueIsFifo ==
    [][/\ QueueAgrees(sq', fifo')
       /\ (qret'.op \in {"Pop", "Peek"} /\ ~qret'.panic)
            => (fifo # <<>> /\ qret'.ret = Head(fifo))
       /\ (qret'.op \in {"Pop", "Peek"} /\ qret'.panic) => fifo = <<>>
       /\ (qret'.op = "Push" /\ qret'.panic) => Len(fifo) = qCap(sq)
       /\ (qret'.op = "Push" /\ ~qret'.panic) => Len(fifo') = Len(fifo) + 1
       /\ (qret'.op = "Pop" /\ ~qret'.panic) => Len(fifo') = Len(fifo) - 1]_vars

\* A Pop has returned from a full queue whose end index has wrapped around
\* while its start index has not.
C27_Witness ==
    /\ qret.op = "Pop"
    /\ ~qret.panic
    /\ sq.e < sq.s
    /\ Len(fifo) = qCap(sq) - 1
    /\ Len(fifo) > 1

\* A goroutine inside a CQ method that cannot go on.
CQBlocked(g) ==
    \/ cqg[g].pc = "recv" /\ cq.buf = <<>>
    \/ cqg[g].pc = "send" /\ Len(cq.buf) = cq.cap

\* C28: CQ with several goroutines calling Pop and Push: no call ever blocks
\* (every call returns an element, enqueues, or panics).
C28_NoCallBlocks == \A g \in QGorts : ~CQBlocked(g)

\* C29: once the producer has observed cancellation at a select, at any
\* depth of scan, it sends no further element and enters no further node.
C29_AbandonsTraversal ==
    [][prod.observed =>
          /\ ~(cons.pc = "recv" /\ cons'.pc = "idle" /\ frames' # frames)
          /\ ~(frames # <<>> /\ Top(frames).pc = "enter" /\ frames' # frames)]_vars

\* C30: after Stop is called the producer enters at most one more node.
C30_OneMoreNode == prod.late <= 1

\* s is t with some of its members left out (the order kept).
RECURSIVE IsSubSeq(_, _)
IsSubSeq(s, t) ==
    IF s = <<>> THEN TRUE
    ELSE IF t = <<>> THEN FALSE
    ELSE IF Head(s) = Head(t) THEN IsSubSeq(Tail(s), Tail(t))
    ELSE IsSubSeq(s, Tail(t))

\* The nodes in the order the traversal of the scanner reaches their
\* emission points.
Emissions == NewScanner(heap, tree, sc.reverse, sc.low, sc.hi)

\* C31: rendezvous and ordering with one consumer: as many elements have
\* been sent as Next calls have returned ok = true, and they are the same
\* elements; the elements received are in the order the traversal reaches
\* their emission points; until a select has taken quit they are exactly the
\* emission points reached so far: the producer waiting at a select holds the
\* next one, and the producer that has returned has delivered them all.
C31_RendezvousInOrder ==
    sc.active =>
        /\ Len(prod.sent) = Len(prod.got)
        /\ \A i \in 1..Len(prod.sent) : prod.got[i] = heap.V[prod.sent[i]]
        /\ IsSubSeq(prod.sent, Emissions)
        /\ ~prod.observed =>
              /\ prod.sent = SubSeq(Emissions, 1, Len(prod.sent))
              /\ (frames # <<>> /\ Top(frames).pc = "select") =>
                    /\ Len(prod.sent) < Len(Emissions)
                    /\ Top(frames).n = Emissions[Len(prod.sent) + 1]
              /\ frames = <<>> => prod.sent = Emissions

\* Three elements have been received, none skipped, and the producer has
\* returned.
C31_Witness ==
    /\ sc.active
    /\ ~prod.observed
    /\ frames = <<>>
    /\ Len(prod.got) = 3
    /\ last.op = "Next"

RECURSIVE SpineSeq(_, _)
SpineSeq(h, root) ==
    IF root = Nil THEN <<>> ELSE <<root>> \o SpineSeq(h, h.r[root])

\* The nodes of the tree in order (left subtree, node, right subtree).
InOrder(h, root) == NewScanner(h, root, FALSE, NoKey, NoKey)

\* C33: tree_to_vine terminates and returns a root and a count such that
\* every node reachable from the root has a nil left child, the count is the
\* number of nodes of the input tree, and the nodes (so the elements) along
\* the right links are the in-order sequence of the input tree.
C33_TreeToVine ==
    LET v == tree_to_vine(heap, tree)
    IN  /\ \A n \in Reach(v.h, v.tree) : v.h.l[n] = Nil
        /\ v.sz = Cardinality(Stored)
        /\ SpineSeq(v.h, v.tree) = InOrder(heap, tree)
        /\ Vals(v.h, SpineSeq(v.h, v.tree)) = Vals(heap, InOrder(heap, tree))

\* A tree of four nodes in which a left child has a right child, so that
\* tree_to_vine moves a subtree over in a rotation.
C33_Witness ==
    /\ Cardinality(Stored) = 4
    /\ \E n \in Stored : heap.l[n] # Nil /\ heap.r[heap.l[n]] # Nil

\* The leftmost node of the subtree at t.
RECURSIVE Leftmost(_, _)
Leftmost(h, t) == IF h.l[t] = Nil THEN t ELSE Leftmost(h, h.l[t])

\* The number of nested rmNode invocations of rmNode(node, ...).
RECURSIVE rmDepth(_, _)
rmDepth(h, node) ==
    IF h.l[node] = Nil \/ h.r[node] = Nil THEN 1
    ELSE 1 + rmDepth(h, minNode(h, h.r[node])[1])

\* Node p links to node m.
LinksTo(h, p, m) == h.l[p] = m \/ h.r[p] = m

\* C34: when Remove locates a node with two children, the node stays where
\* it is with its element replaced by that of its in-order successor (the
\* leftmost node of its right subtree), the successor is the node unlinked,
\* the nested rmNode call takes the no-left-child case with the successor's
\* true parent, rmNode nests at most two deep, and the root is unchanged; in
\* the other two cases the root changes only when the located node is the
\* root.
C34_TwoChildrenRemove ==
    [][(last'.op = "Remove" /\ last'.ok) =>
        LET n  == findNode(heap, tree, last'.key)[1]
            mn == minNode(heap, heap.r[n])
            pn == IF mn[2] = Nil THEN n ELSE mn[2]
        IN  IF heap.l[n] # Nil /\ heap.r[n] # Nil
            THEN LET succ == Leftmost(heap, heap.r[n]) IN
                 /\ tree' = tree
                 /\ last'.node = n
                 /\ n \in Reach(heap', tree')
                 /\ \A p \in Stored \ {succ} :
                        /\ heap.l[p] = n => heap'.l[p] = n
                        /\ heap.r[p] = n => heap'.r[p] = n
                 /\ heap'.l[n] = heap.l[n]
                 /\ heap'.r[n] = IF heap.r[n] = succ THEN heap.r[succ]
                                 ELSE heap.r[n]
                 /\ heap'.V[n] = heap.V[succ]
                 /\ Reach(heap', tree') = Stored \ {succ}
                 /\ mn[1] = succ
                 /\ heap.l[succ] = Nil
                 /\ LinksTo(heap, pn, succ)
                 /\ rmDepth(heap, n) = 2
            ELSE /\ rmDepth(heap, n) = 1
                 /\ tree' # tree => n = tree
                 /\ Reach(heap', tree') = Stored \ {n}]_vars

\* A Remove has located a node with two children other than the root: the
\* node it returned is still in the tree.
C34_Witness ==
    /\ last.op = "Remove" /\ last.ok
    /\ last.node \in Stored /\ last.node # tree
    /\ heap.l[last.node] # Nil
    /\ Cardinality(Stored) = 3

\* Whether scan, at node n, calls itself on the left / the right subtree.
GoesLeft(h, n, sp) ==
    LET k == scanNode(h, n, sp)
    IN  IF sp.reverse THEN k.dopost /\ k.post # Nil /\ k.post = h.l[n]
        ELSE k.dopre /\ k.pre # Nil /\ k.pre = h.l[n]
GoesRight(h, n, sp) ==
    LET k == scanNode(h, n, sp)
    IN  IF sp.reverse THEN k.dopre /\ k.pre # Nil /\ k.pre = h.r[n]
        ELSE k.dopost /\ k.post # Nil /\ k.post = h.r[n]

\* C35: the decision table of scan at a node with element V, for bounds
\* with low <= hi (either may be nil): V strictly above hi: not emitted, only
\* the left subtree explored; V strictly below low: not emitted, only the
\* right subtree explored; otherwise, V equal to low or to hi included:
\* emitted and both subtrees explored.
C35_DecisionTable ==
    \A n \in Stored, reverse \in BOOLEAN, low \in Bounds, hi \in Bounds :
        (low = NoKey \/ hi = NoKey \/ Cmp(low, hi) <= 0) =>
            LET sp == Scanner(reverse, low, hi)
                V  == heap.V[n]
                e  == scanNode(heap, n, sp).emit
                l  == GoesLeft(heap, n, sp)
                r  == GoesRight(heap, n, sp)
                hl == heap.l[n] # Nil
                hr == heap.r[n] # Nil
            IN  IF hi # NoKey /\ Cmp(hi, V) < 0
                THEN ~e /\ (hl => l) /\ ~r
                ELSE IF low # NoKey /\ Cmp(low, V) > 0
                THEN ~e /\ ~l /\ (hr => r)
                ELSE e /\ (hl => l) /\ (hr => r)

\* C36: on every execution of a scanner the element channel is closed
\* exactly once: never a second time (a fault), not before the producer has
\* returned, and not left open once it has returned (or, on the empty tree,
\* once NewScanner has returned).
C36_ClosedExactlyOnce ==
    sc.active =>
        /\ ~ch.fault
        /\ ch.closed <=> frames = <<>>

\* The producer has returned and closed ch after a nested invocation of scan
\* had taken <-quit and an invocation above it had still sent its element.
C36_Witness ==
    /\ sc.active /\ frames = <<>> /\ ch.closed
    /\ prod.observed
    /\ prod.sent # <<>>
    /\ prod.sent # SubSeq(Emissions, 1, Len(prod.sent))

\* The stored nodes whose element compares equal to key. Nodes are numbered
\* in the order of their insertion.
EqualTo(key) == {n \in Stored : Cmp(key, heap.V[n]) = 0}
Earliest(key) == CHOOSE n \in EqualTo(key) : \A m \in EqualTo(key) : n <= m

\* C37: in a tree built by Insert with unique = false only, the ascending
\* unbounded scan lists elements that compare equal in the order of their
\* insertion, and Find(key) stops at the earliest inserted of the nodes
\* whose element is equal to key and returns its element.
C37_DuplicatesStable ==
    [][LET S == InOrder(heap', tree')
       IN  /\ \A i, j \in 1..Len(S) :
                 (i < j /\ Cmp(heap'.V[S[i]], heap'.V[S[j]]) = 0)
                     => S[i] < S[j]
           /\ \A key \in Elems :
                 EqualTo(key) # {} => FindLoop(heap, tree, key) = Earliest(key)
           /\ (last'.op = "Find" /\ EqualTo(last'.key) # {}) =>
                 /\ last'.ok
                 /\ last'.elem = heap.V[Earliest(last'.key)]]_vars

\* Find has returned an element of which the tree holds three, with other
\* elements around them.
C37_Witness ==
    /\ last.op = "Find" /\ last.ok
    /\ Cardinality(EqualTo(last.key)) = 3
    /\ Cardinality(Stored) = 4
    /\ heap.V[tree] # last.key

\* The vine whose right spine is the node sequence S: the links of h with
\* those of the nodes of S replaced.
VineOf(h, S) ==
    [h EXCEPT
       !.l = [n \in DOMAIN h.l |->
                IF \E i \in 1..Len(S) : S[i] = n THEN Nil ELSE h.l[n]],
       !.r = [n \in DOMAIN h.r |->
                IF \E i \in 1..Len(S) : S[i] = n
                THEN LET i == CHOOSE i \in 1..Len(S) : S[i] = n
                     IN  IF i < Len(S) THEN S[i + 1] ELSE Nil
                ELSE h.r[n]]]

\* The tree vine_to_tree makes of the node sequence S.
ShapeOf(h, S) ==
    vine_to_tree(VineOf(h, S), IF S = <<>> THEN Nil ELSE S[1], Len(S))

\* Trees (g, a) and (h, b) have the same root and the same child links.
SameTree(g, a, h, b) ==
    /\ a = b
    /\ Reach(g, a) = Reach(h, b)
    /\ \A n \in Reach(g, a) : g.l[n] = h.l[n] /\ g.r[n] = h.r[n]

\* C38: the tree Balance returns is a function of the in-order sequence of
\* nodes alone (so two trees with the same sequence give the same tree), a
\* second Balance changes nothing, and Balance of the empty tree and of a
\* one-node tree return the tree given, without fault.
C38_BalanceShape ==
    [][last'.op = "Balance" =>
        LET S  == InOrder(heap, tree)
            c  == ShapeOf(heap, S)
            b2 == Balance(heap', tree')
        IN  /\ last'.ok
            /\ ~c.fault
            /\ SameTree(heap', tree', c.h, c.tree)
            /\ ~b2.fault
            /\ SameTree(b2.h, b2.tree, heap', tree')
            /\ Len(S) <= 1 => (tree' = tree /\ SameTree(heap', tree', heap, tree))]_vars

\* Balance has returned a tree of four nodes whose root has both children.
C38_Witness ==
    /\ last.op = "Balance" /\ last.ok
    /\ Cardinality(Stored) = 4
    /\ heap.l[tree] # Nil /\ heap.r[tree] # Nil

\* C39: a Push of SQ that panics on a full queue leaves the queue as it was:
\* the start and end indices and the buffer unchanged and the mutex not held,
\* so that later calls get in.
C39_PushPanicLeavesUsable ==
    [][(qret'.op = "Push" /\ qret'.panic) =>
          /\ sq'.s = sq.s /\ sq'.e = sq.e /\ sq'.b = sq.b
          /\ ~sq'.mu]_vars

\* C40: np2(i) returns within IntBits tests of its loop, and returns
\* 2^floor(log2(i)), for every i from 1 to the largest int.
C40_Np2Terminates ==
    /\ pw.k <= IntBits
    /\ pw.stage = "done" => pw.ret = 2 ^ lg2(pw.i)

====
